---- MODULE Spec2Model ----
(***************************************************************************)
(* A model of Tools/sanitize_avif.py: the item property graph              *)
(* (ParsedFile's ipco / ipma mutation API), the box writer with its file   *)
(* offset placeholders (AVIFWriter.write), the box parser, the Sequence   *)
(* Header OBU parser (AV1ElementaryStream), the validate / fix pass        *)
(* (validate_file, process) and the option handling of process().          *)
(***************************************************************************)
EXTENDS Integers, Sequences, FiniteSets, TLC

(***************************************************************************)
(* Bounds of the model.                                                    *)
(***************************************************************************)
MaxItems == 2
MaxProps == 3
MaxAssoc == 2
MaxBody == 2
MaxCalls == 2

VARIABLES
    ipco,           \* ParsedFile.ipco.sub_boxes: the shared property boxes
    associations,   \* ParsedFile.ipma.body["associations"]: item_id -> [(index, essential)]
    needs_rewrite,  \* Box.needs_rewrite of every named box of the tree
    hasIprp,        \* FALSE when the file has no meta/iprp/ipma or ipco (self.ipma is None)
    failed,         \* an assertion or an exception has aborted the run
    lastCall,       \* the mutation-API call made last (history)
    prevCall,       \* the mutation-API call made before it (history)
    calls,          \* how many mutation-API calls have been made (history)
    read_result,    \* what get_item_properties_for_item returned or raised last
    stage,          \* process(): where the validate / fix pass is
    issues,         \* process(): the issues whose fix is still to be applied
    reported,       \* how many issues validate_file returned in this pass (history)
    fix_pass,       \* which run of the tool this is: 1, or 2 on the output of 1
    outputs,        \* what each finished pass has written (history)
    obu_data,       \* AV1ElementaryStream: the bytes of the Sequence Header OBU
    sequence_header,\* AV1ElementaryStream.sequence_header, with how its parse ended
    args,           \* the command line: dry_run, interactive, dst_file, nclx_default
    default_nclx    \* process(): the nclx values assumed for files without nclx

graphVars ==
    <<ipco, associations, needs_rewrite, hasIprp, failed, lastCall, prevCall, calls,
      read_result, stage, issues, reported, fix_pass, outputs,
      obu_data, sequence_header, args, default_nclx>>

VARIABLES
    src_file,            \* the bytes of the source file
    parsed_boxes,        \* ParsedFile.boxes
    pc,                  \* where the run is
    box_index,           \* write(): the top-level box the first loop is at
    output,              \* the bytes of the destination file
    output_pos,          \* output.tell()
    count,               \* copy_data_to_destination: bytes still to copy
    read_pos,            \* copy_data_to_destination: position in the source
    placeholder_offsets, \* write(): the placeholders collected
    mdat_boxes,          \* write(): (mdat box, position in the output)
    patch_index,         \* write(): the placeholder the second loop is at
    applied              \* the deltas applied: (placeholder, delta) (history)

writeVars ==
    <<src_file, parsed_boxes, pc, box_index, output, output_pos, count, read_pos,
      placeholder_offsets, mdat_boxes, patch_index, applied>>

vars == <<graphVars, writeVars>>

fixVars == <<stage, issues, reported, fix_pass, outputs>>

\* No validate / fix pass is being made.
FixIdle ==
    /\ stage = "idle" /\ issues = <<>> /\ reported = 0 /\ fix_pass = 0 /\ outputs = <<>>

auxVars == <<obu_data, sequence_header, args, default_nclx>>

\* process(), l.2744-2749: the nclx values assumed when --nclx-default is
\* not given.
DefaultNclx ==
    [color_primaries |-> <<1>>, transfer_characteristics |-> <<13>>,
     matrix_coefficients |-> <<6, 5>>, full_range_flag |-> <<1>>]

\* No sequence header has been parsed.
NoSequenceHeader == [outcome |-> "none", body |-> [x \in {} |-> 0], bits |-> 0]

\* A run that writes to a file of its own, without options: dst_file is
\* "None", "src" (the path of the source) or "dst"; nclx_default is <<>>
\* for None.
NoArgs == [dry_run |-> FALSE, interactive |-> FALSE, dst_file |-> "dst", nclx_default |-> <<>>]

\* No OBU is being parsed and no option is being processed.
AuxIdle ==
    /\ obu_data = <<>> /\ sequence_header = NoSequenceHeader
    /\ args = NoArgs /\ default_nclx = DefaultNclx

\* No file is being written.
WriteIdle ==
    /\ src_file = <<>> /\ parsed_boxes = <<>> /\ pc = "idle" /\ box_index = 0
    /\ output = <<>> /\ output_pos = 0 /\ count = 0 /\ read_pos = 0 /\ placeholder_offsets = <<>>
    /\ mdat_boxes = <<>> /\ patch_index = 0 /\ applied = <<>>

(***************************************************************************)
(* Small helpers.                                                          *)
(***************************************************************************)

Min(S) == CHOOSE x \in S : \A y \in S : x <= y

Max(S) == CHOOSE x \in S : \A y \in S : x >= y

Items == 1..MaxItems

\* Python's None for an Optional[BoxHeader] / Optional[BoxBody] / Optional[int].
HeaderNone == <<-1>>
BodyNone == <<-1>>
PositionNone == -1

\* A header is {} (not a full box) or {"version": v, "flags": f}.
EmptyHeader == <<>>
FullHeader(v, f) == <<v, f>>

\* dict.get(item_id, []).
Get(d, k) == IF k \in DOMAIN d THEN d[k] ELSE <<>>

\* d[k] = v.
Put(d, k, v) == [x \in (DOMAIN d) \cup {k} |-> IF x = k THEN v ELSE d[x]]

\* list.insert(position, val) for position >= 0: beyond the end it appends.
ListInsert(s, position, val) ==
    LET p == IF position > Len(s) THEN Len(s) ELSE position
    IN SubSeq(s, 1, p) \o <<val>> \o SubSeq(s, p + 1, Len(s))

(***************************************************************************)
(* The box tree: the named boxes and their parents (Box.parent).           *)
(***************************************************************************)
BoxNames ==
    {"ftyp", "meta", "iloc", "iprp", "ipco", "ipma",
     "moov", "trak", "mdia", "minf", "stbl", "stco"}

ParentOf(b) ==
    CASE b = "iloc" -> "meta"
      [] b = "iprp" -> "meta"
      [] b = "ipco" -> "iprp"
      [] b = "ipma" -> "iprp"
      [] b = "trak" -> "moov"
      [] b = "mdia" -> "trak"
      [] b = "minf" -> "mdia"
      [] b = "stbl" -> "minf"
      [] b = "stco" -> "stbl"
      [] OTHER -> "none"

\* A mark that stops at the box itself.
MarkForRewrite_BoxOnly(nr, b) ==
    IF b = "none" THEN nr ELSE [nr EXCEPT ![b] = TRUE]

\* Box.mark_for_rewrite: the box and every ancestor.
RECURSIVE MarkForRewrite(_, _)
MarkForRewrite(nr, b) ==
    IF b = "none" THEN nr
    ELSE MarkForRewrite([nr EXCEPT ![b] = TRUE], ParentOf(b))

(***************************************************************************)
(* The property graph.  A graph value g is                                 *)
(*   [ipco, assoc, nr, present, failed].                                   *)
(***************************************************************************)
Graph == [ipco |-> ipco, assoc |-> associations, nr |-> needs_rewrite,
          present |-> hasIprp, failed |-> failed]

Abort(g) == [g EXCEPT !.failed = TRUE]

\* A property box: Box(type, parent = ipco, size, start) with header and body.
PropBox(t, h, b, start, size, dirty) ==
    [type |-> t, header |-> h, body |-> b, start |-> start, size |-> size,
     needs_rewrite |-> dirty]

\* A lookup that never finds the property.
GetExistingPropertyIfPresent_NeverFound(co, property_type, property_header, property_body) ==
    -1

\* ParsedFile.get_existing_property_if_present: 0-based index or -1.
GetExistingPropertyIfPresent(co, property_type, property_header, property_body) ==
    LET hits == {i \in 1..Len(co) :
                    /\ co[i].type = property_type
                    /\ co[i].header = property_header
                    /\ co[i].body = property_body}
    IN IF hits = {} THEN -1 ELSE Min(hits) - 1

\* An association call that leaves an existing association as it is.
AddPropertyAssociation_NoUpgrade(g, item_id, ipco_index, essential, position) ==
    IF ~g.present \/ g.failed THEN g
    ELSE
    LET assocs == Get(g.assoc, item_id)
        hits == {i \in 1..Len(assocs) : ipco_index = assocs[i][1] - 1}
        pos == IF position = PositionNone THEN Len(assocs) ELSE position
    IN IF hits = {}
       THEN [g EXCEPT
                !.assoc = Put(g.assoc, item_id,
                              ListInsert(assocs, pos, <<ipco_index + 1, essential>>)),
                !.nr = MarkForRewrite(g.nr, "ipma")]
       ELSE g

\* An association call that overwrites the flag of an existing association.
AddPropertyAssociation_Overwrite(g, item_id, ipco_index, essential, position) ==
    IF ~g.present \/ g.failed THEN g
    ELSE
    LET assocs == Get(g.assoc, item_id)
        hits == {i \in 1..Len(assocs) : ipco_index = assocs[i][1] - 1}
        pos == IF position = PositionNone THEN Len(assocs) ELSE position
    IN [g EXCEPT
           !.assoc = Put(g.assoc, item_id,
                         IF hits = {}
                         THEN ListInsert(assocs, pos, <<ipco_index + 1, essential>>)
                         ELSE [assocs EXCEPT ![Min(hits)] = <<ipco_index + 1, essential>>]),
           !.nr = MarkForRewrite(g.nr, "ipma")]

\* ParsedFile.add_property_association.
AddPropertyAssociation(g, item_id, ipco_index, essential, position) ==
    IF ~g.present \/ g.failed THEN g
    ELSE
    LET assocs == Get(g.assoc, item_id)
        n == Len(g.ipco)
        hits == {i \in 1..Len(assocs) : ipco_index = assocs[i][1] - 1}
        visited == IF hits = {} THEN 1..Len(assocs) ELSE 1..Min(hits)
        inRange == \A i \in visited : 1 <= assocs[i][1] /\ assocs[i][1] <= n
    IN IF ~inRange THEN Abort(g)
       ELSE IF hits = {} THEN
            LET pos == IF position = PositionNone THEN Len(assocs) ELSE position
            IN [g EXCEPT
                   !.assoc = Put(g.assoc, item_id,
                                 ListInsert(assocs, pos, <<ipco_index + 1, essential>>)),
                   !.nr = MarkForRewrite(g.nr, "ipma")]
       ELSE IF essential /\ ~assocs[Min(hits)][2] THEN
            [g EXCEPT
                !.assoc = Put(g.assoc, item_id,
                              [assocs EXCEPT ![Min(hits)] = <<ipco_index + 1, essential>>]),
                !.nr = MarkForRewrite(g.nr, "ipma")]
       ELSE g

\* ParsedFile.remove_property_associations: [g, position, essential].
RemovePropertyAssociations(g, item_id, property_type, header, body) ==
    IF ~g.present \/ g.failed
    THEN [g |-> g, position |-> PositionNone, essential |-> TRUE]
    ELSE
    LET assocs == Get(g.assoc, item_id)
        n == Len(g.ipco)
        inRange == \A i \in 1..Len(assocs) : 1 <= assocs[i][1] /\ assocs[i][1] <= n
        ShouldKeep(a) ==
            LET box == g.ipco[a[1]]
            IN \/ box.type # property_type
               \/ (header # HeaderNone /\ box.header # header)
               \/ (body # BodyNone /\ box.body # body)
        removed == {i \in 1..Len(assocs) : ~ShouldKeep(assocs[i])}
        filtered_associations == SelectSeq(assocs, ShouldKeep)
    IN IF ~inRange
       THEN [g |-> Abort(g), position |-> PositionNone, essential |-> TRUE]
       ELSE IF removed = {}
       THEN [g |-> g, position |-> PositionNone, essential |-> TRUE]
       ELSE [g |-> [g EXCEPT !.assoc = Put(g.assoc, item_id, filtered_associations),
                             !.nr = MarkForRewrite(g.nr, "ipma")],
             position |-> Min(removed) - 1,
             essential |-> assocs[Min(removed)][2]]

\* Python list indexing: a negative index counts from the end.
PyIndex(i, n) == IF i < 0 THEN i + n ELSE i

\* A compaction that counts the dropped entries strictly before an index.
DropUnusedItemProperties_LateRemap(g) ==
    IF ~g.present \/ g.failed THEN g
    ELSE
    LET n == Len(g.ipco)
        props_to_drop == {j \in 1..n : \A it \in DOMAIN g.assoc :
                             \A k \in 1..Len(g.assoc[it]) : g.assoc[it][k][1] # j}
        kept == (1..n) \ props_to_drop
        Nth(k) == CHOOSE j \in kept : Cardinality({x \in kept : x <= j}) = k
        Remap(a) == <<a[1] - Cardinality({k \in props_to_drop : k < a[1] - 1}), a[2]>>
    IN IF props_to_drop = {} THEN g
       ELSE [g EXCEPT
                !.assoc = [it \in DOMAIN g.assoc |->
                              [k \in 1..Len(g.assoc[it]) |-> Remap(g.assoc[it][k])]],
                !.ipco = [k \in 1..Cardinality(kept) |-> g.ipco[Nth(k)]],
                !.nr = MarkForRewrite(g.nr, "ipco")]

\* ParsedFile.drop_unused_item_properties.
DropUnusedItemProperties(g) ==
    IF ~g.present \/ g.failed THEN g
    ELSE
    LET n == Len(g.ipco)
        live == UNION {{<<it, k>> : k \in 1..Len(g.assoc[it])} : it \in DOMAIN g.assoc}
        Slot(r) == PyIndex(g.assoc[r[1]][r[2]][1] - 1, n)
        indexable == \A r \in live : 0 <= Slot(r) /\ Slot(r) < n
        prop_assoc_count(j) == Cardinality({r \in live : Slot(r) = j - 1})
        props_to_drop == {j \in 1..n : prop_assoc_count(j) = 0}
        decrement_count(j) == Cardinality({k \in props_to_drop : k <= j})
        kept == (1..n) \ props_to_drop
        Nth(k) == CHOOSE j \in kept : Cardinality({x \in kept : x <= j}) = k
        Remap(a) == <<a[1] - decrement_count(PyIndex(a[1] - 1, n) + 1), a[2]>>
    IN IF ~indexable THEN Abort(g)
       ELSE IF props_to_drop = {} THEN g
       ELSE [g EXCEPT
                !.assoc = [it \in DOMAIN g.assoc |->
                              [k \in 1..Len(g.assoc[it]) |-> Remap(g.assoc[it][k])]],
                !.ipco = [k \in 1..Cardinality(kept) |-> g.ipco[Nth(k)]],
                !.nr = MarkForRewrite(g.nr, "ipco")]

\* ParsedFile._add_property_if_needed: [g, index].
AddPropertyIfNeeded(g, property_type, header, body) ==
    IF ~g.present \/ g.failed THEN [g |-> g, index |-> -1]
    ELSE
    LET existing_box_index == GetExistingPropertyIfPresent(g.ipco, property_type, header, body)
    IN IF existing_box_index = -1
       THEN [g |-> [g EXCEPT
                       !.ipco = Append(g.ipco,
                                       PropBox(property_type,
                                               IF header # HeaderNone THEN header
                                               ELSE EmptyHeader,
                                               body, 0, 0, TRUE)),
                       !.nr = MarkForRewrite(g.nr, "ipco")],
             index |-> Len(g.ipco)]
       ELSE [g |-> g, index |-> existing_box_index]

\* A replacement that appends the new association.
ReplacePropertyForItem_Append(g, property_type, header, body, item_id, old_header, old_body) ==
    LET added == AddPropertyIfNeeded(g, property_type, header, body)
        removed == RemovePropertyAssociations(added.g, item_id, property_type,
                                              old_header, old_body)
        linked == AddPropertyAssociation(removed.g, item_id, added.index,
                                         removed.essential, PositionNone)
    IN DropUnusedItemProperties(linked)

\* ParsedFile.replace_property_for_item.
ReplacePropertyForItem(g, property_type, header, body, item_id, old_header, old_body) ==
    LET added == AddPropertyIfNeeded(g, property_type, header, body)
        removed == RemovePropertyAssociations(added.g, item_id, property_type,
                                              old_header, old_body)
        linked == AddPropertyAssociation(removed.g, item_id, added.index,
                                         removed.essential, removed.position)
    IN DropUnusedItemProperties(linked)

\* ParsedFile.add_property_for_item.
AddPropertyForItem(g, property_type, header, body, item_id, essential, position) ==
    LET added == AddPropertyIfNeeded(g, property_type, header, body)
    IN AddPropertyAssociation(added.g, item_id, added.index, essential, position)

(***************************************************************************)
(* The parsed files the property graph starts from.                        *)
(***************************************************************************)
Bodies == {<<b>> : b \in 1..MaxBody}

\* The (type, header, body) triples the callers of the mutation API pass.
PropInputs ==
    {<<"ispe", FullHeader(0, 0), b>> : b \in Bodies}
        \cup {<<"ispe", EmptyHeader, <<1>>>>, <<"clap", EmptyHeader, <<1>>>>}

\* Serialized size of a property box: 8 bytes of box header, 4 more for a
\* full box, 8 bytes of ispe body, 32 bytes of clap body, 1 byte of irot.
PropSize(t, h) ==
    8 + (IF h = EmptyHeader THEN 0 ELSE 4)
      + (IF t = "clap" THEN 32 ELSE IF t = "irot" THEN 1 ELSE 8)

\* The property boxes parse_box_sequence reads from the ipco body that
\* starts at file position `at`: consecutive, clean, with their source range.
RECURSIVE ParsedProps(_, _)
ParsedProps(triples, at) ==
    IF triples = <<>> THEN <<>>
    ELSE LET t == Head(triples)
         IN <<PropBox(t[1], t[2], t[3], at, PropSize(t[1], t[2]), FALSE)>>
                \o ParsedProps(Tail(triples), at + PropSize(t[1], t[2]))

IpcoBodyStart == 64

ParsedIpcoChoices ==
    {<<>>,
     <<<<"ispe", FullHeader(0, 0), <<1>>>>>>,
     <<<<"clap", EmptyHeader, <<1>>>>, <<"ispe", FullHeader(0, 0), <<1>>>>>>,
     <<<<"ispe", FullHeader(0, 0), <<1>>>>, <<"ispe", FullHeader(0, 0), <<2>>>>>>}

\* Association lists of a parsed ipma: indices in 1..n, no index twice.
AssocEntries(n) == (1..n) \X BOOLEAN
AssocLists(n) ==
    {<<>>} \cup {<<a>> : a \in AssocEntries(n)}
           \cup {s \in {<<a, b>> : a \in AssocEntries(n), b \in AssocEntries(n)} :
                      s[1][1] # s[2][1]}

CleanTree == [b \in BoxNames |-> FALSE]

NoCall == [op |-> "none", item |-> 0, prop |-> <<>>, index |-> 0,
           essential |-> FALSE, changed |-> FALSE]

NoRead == [item |-> 0, outcome |-> "none", properties |-> <<>>]

InitGraph ==
    /\ hasIprp \in BOOLEAN
    /\ failed = FALSE
    /\ needs_rewrite = CleanTree
    /\ lastCall = NoCall
    /\ prevCall = NoCall
    /\ calls = 0
    /\ read_result = NoRead
    /\ FixIdle
    /\ AuxIdle
    /\ WriteIdle
    /\ IF hasIprp
       THEN /\ \E triples \in ParsedIpcoChoices : ipco = ParsedProps(triples, IpcoBodyStart)
            /\ \E dom \in {{}, Items} :
                  /\ associations \in [dom -> AssocLists(Len(ipco))]
                  /\ \A it \in dom : it > 1 => Len(associations[it]) <= 1
       ELSE /\ ipco = <<>>
            /\ associations = [it \in {} |-> <<>>]

(***************************************************************************)
(* The mutation API as actions.                                            *)
(***************************************************************************)
WithinBounds(g) ==
    /\ calls < MaxCalls
    /\ Len(g.ipco) <= MaxProps
    /\ \A it \in DOMAIN g.assoc : Len(g.assoc[it]) <= MaxAssoc

Install(g) ==
    /\ ipco' = g.ipco
    /\ associations' = g.assoc
    /\ needs_rewrite' = g.nr
    /\ failed' = g.failed
    /\ hasIprp' = hasIprp
    /\ calls' = calls + 1
    /\ prevCall' = lastCall
    /\ read_result' = read_result
    /\ UNCHANGED fixVars
    /\ UNCHANGED writeVars
    /\ UNCHANGED auxVars

Positions == {PositionNone} \cup (0..(MaxAssoc - 2))
HeaderFilters == {HeaderNone, FullHeader(0, 0)}
BodyFilters == {BodyNone, <<1>>}
PropTypes == {"ispe", "clap"}

AddPropertyForItemCall(p, item_id, essential, position) ==
    /\ ~failed
    /\ LET g == AddPropertyForItem(Graph, p[1], p[2], p[3], item_id, essential, position)
       IN /\ WithinBounds(g)
          /\ Install(g)
          /\ lastCall' = [op |-> "add_property_for_item", item |-> item_id,
                          prop |-> p,
                          index |-> AddPropertyIfNeeded(Graph, p[1], p[2], p[3]).index,
                          essential |-> essential,
                          changed |-> Len(g.ipco) # Len(ipco)]

AddPropertyAssociationCall(item_id, ipco_index, essential, position) ==
    /\ ~failed
    /\ LET g == AddPropertyAssociation(Graph, item_id, ipco_index, essential, position)
       IN /\ WithinBounds(g)
          /\ Install(g)
          /\ lastCall' = [op |-> "add_property_association", item |-> item_id,
                          prop |-> <<>>, index |-> ipco_index, essential |-> essential,
                          changed |-> Len(Get(g.assoc, item_id))
                                        # Len(Get(associations, item_id))]

RemovePropertyAssociationsCall(item_id, property_type, header, body) ==
    /\ ~failed
    /\ LET r == RemovePropertyAssociations(Graph, item_id, property_type, header, body)
       IN /\ WithinBounds(r.g)
          /\ Install(r.g)
          /\ lastCall' = [op |-> "remove_property_associations", item |-> item_id,
                          prop |-> <<>>, index |-> r.position, essential |-> r.essential,
                          changed |-> r.position # PositionNone]

ReplacePropertyForItemCall(p, item_id, old_header, old_body) ==
    /\ ~failed
    /\ LET g == ReplacePropertyForItem(Graph, p[1], p[2], p[3], item_id,
                                       old_header, old_body)
       IN /\ WithinBounds(g)
          /\ Install(g)
          /\ lastCall' = [op |-> "replace_property_for_item", item |-> item_id,
                          prop |-> p,
                          index |-> AddPropertyIfNeeded(Graph, p[1], p[2], p[3]).index,
                          essential |-> FALSE,
                          changed |-> Get(g.assoc, item_id) # Get(associations, item_id)]

DropUnusedItemPropertiesCall ==
    /\ ~failed
    /\ LET g == DropUnusedItemProperties(Graph)
       IN /\ WithinBounds(g)
          /\ Install(g)
          /\ lastCall' = [op |-> "drop_unused_item_properties", item |-> 0,
                          prop |-> <<>>, index |-> 0, essential |-> FALSE,
                          changed |-> Len(g.ipco) # Len(ipco)]

NextGraph ==
    \/ \E p \in PropInputs, item_id \in Items, essential \in BOOLEAN, position \in Positions :
          AddPropertyForItemCall(p, item_id, essential, position)
    \/ \E item_id \in Items, ipco_index \in 0..(Len(ipco) - 1), essential \in BOOLEAN,
          position \in Positions :
          AddPropertyAssociationCall(item_id, ipco_index, essential, position)
    \/ \E item_id \in Items, t \in PropTypes, h \in HeaderFilters, b \in BodyFilters :
          RemovePropertyAssociationsCall(item_id, t, h, b)
    \/ \E p \in PropInputs, item_id \in Items, h \in HeaderFilters, b \in BodyFilters :
          ReplacePropertyForItemCall(p, item_id, h, b)
    \/ DropUnusedItemPropertiesCall

SpecGraph == InitGraph /\ [][NextGraph]_vars

(***************************************************************************)
(* Properties of the property graph.                                       *)
(***************************************************************************)
SameProperty(x, y) == x.type = y.type /\ x.header = y.header /\ x.body = y.body

\* The positions of item_id's associations to the 1-based property index k.
LinksTo(assoc, item_id, k) ==
    {j \in 1..Len(Get(assoc, item_id)) : Get(assoc, item_id)[j][1] = k}

\* The 1-based indices of the ipco entries some item is associated with.
UsedProps(co, assoc) ==
    {k \in 1..Len(co) : \E it \in DOMAIN assoc : LinksTo(assoc, it, k) # {}}

UnusedProps(co, assoc) == (1..Len(co)) \ UsedProps(co, assoc)

AllInRange(co, assoc) ==
    \A it \in DOMAIN assoc : \A j \in 1..Len(assoc[it]) :
        1 <= assoc[it][j][1] /\ assoc[it][j][1] <= Len(co)

NoDuplicateProperties ==
    \A i \in 1..Len(ipco) : \A j \in 1..Len(ipco) :
        i # j => ~SameProperty(ipco[i], ipco[j])

\* The 1-based indices of the ipco entries that are the triple p.
EntriesOf(co, p) ==
    {i \in 1..Len(co) : co[i].type = p[1] /\ co[i].header = p[2] /\ co[i].body = p[3]}

\* item_id has exactly one association, and it is to an entry that is p.
LinkedOnceTo(item_id, p) ==
    \E k \in EntriesOf(ipco, p) : Cardinality(LinksTo(associations, item_id, k)) = 1

\* C5 (Dedup): the ipco sequence never holds two structurally equal entries
\* (same type, header and body); after add_property_for_item the added
\* (type, header, body) is exactly one entry of ipco with exactly one
\* association from the item, and a second item adding the same triple gets
\* the same entry, which then has one association from each item.
C5_Dedup ==
    /\ NoDuplicateProperties
    /\ (hasIprp /\ ~failed /\ lastCall.op = "add_property_for_item") =>
          /\ Cardinality(EntriesOf(ipco, lastCall.prop)) = 1
          /\ EntriesOf(ipco, lastCall.prop) = {lastCall.index + 1}
          /\ LinkedOnceTo(lastCall.item, lastCall.prop)
    /\ (hasIprp /\ ~failed /\ lastCall.op = "add_property_for_item"
               /\ prevCall.op = "add_property_for_item"
               /\ prevCall.prop = lastCall.prop
               /\ prevCall.item # lastCall.item) =>
          /\ ~lastCall.changed
          /\ prevCall.index = lastCall.index
          /\ LinkedOnceTo(prevCall.item, lastCall.prop)

\* Two different items have added the same triple: the first call appended
\* the entry, the second call found it.
C5_Witness ==
    /\ lastCall.op = "add_property_for_item" /\ prevCall.op = "add_property_for_item"
    /\ prevCall.item # lastCall.item
    /\ prevCall.prop = lastCall.prop
    /\ prevCall.changed /\ ~lastCall.changed
    /\ ipco[lastCall.index + 1].needs_rewrite
    /\ LinksTo(associations, 1, lastCall.index + 1) # {}
    /\ LinksTo(associations, 2, lastCall.index + 1) # {}

\* How many of the unused entries of co precede index k.
UnusedBefore(co, assoc, k) == Cardinality({u \in UnusedProps(co, assoc) : u < k})

\* C6 (Compaction preserves the graph): drop_unused_item_properties removes
\* exactly the ipco entries without association, keeps the others in order,
\* and moves every association index down by the number of removed entries
\* before it, so each association keeps its box, essential flag and position.
C6_CompactionPreservesGraph ==
    [][DropUnusedItemPropertiesCall =>
        /\ Len(ipco') = Cardinality(UsedProps(ipco, associations))
        /\ \A k \in UsedProps(ipco, associations) :
              ipco'[k - UnusedBefore(ipco, associations, k)] = ipco[k]
        /\ DOMAIN associations' = DOMAIN associations
        /\ \A it \in DOMAIN associations :
              /\ Len(associations'[it]) = Len(associations[it])
              /\ \A j \in 1..Len(associations[it]) :
                    /\ associations'[it][j][1] =
                          associations[it][j][1]
                            - UnusedBefore(ipco, associations, associations[it][j][1])
                    /\ associations'[it][j][2] = associations[it][j][2]
                    /\ ipco'[associations'[it][j][1]] = ipco[associations[it][j][1]]
    ]_graphVars

\* A compaction that dropped an entry while associations remain.
C6_Witness ==
    /\ lastCall.op = "drop_unused_item_properties" /\ lastCall.changed
    /\ \E it \in DOMAIN associations : Len(associations[it]) > 0
    /\ UnusedProps(ipco, associations) = {}

IsRemovalCall ==
    \/ \E item_id \in Items, t \in PropTypes, h \in HeaderFilters, b \in BodyFilters :
          RemovePropertyAssociationsCall(item_id, t, h, b)
    \/ \E p \in PropInputs, item_id \in Items, h \in HeaderFilters, b \in BodyFilters :
          ReplacePropertyForItemCall(p, item_id, h, b)

\* C7 (Compaction runs after every removal): a call of
\* remove_property_associations or replace_property_for_item that removes
\* the only association to a property leaves no ipco entry without
\* association.
C7_CompactionAfterEveryRemoval ==
    [][(IsRemovalCall /\ UnusedProps(ipco, associations) = {})
          => UnusedProps(ipco', associations') = {}]_graphVars

\* C8 (Essential upgrade): add_property_association with essential = false
\* and then with essential = true for the same (item, property) leaves one
\* association to the property, essential, where the first call left it,
\* and ipma is marked for rewrite.
C8_EssentialUpgrade ==
    [][\A item_id \in Items, ipco_index \in 0..MaxProps, position \in Positions :
        (/\ lastCall.op = "add_property_association"
         /\ lastCall.item = item_id /\ lastCall.index = ipco_index
         /\ ~lastCall.essential
         /\ \E j \in LinksTo(associations, item_id, ipco_index + 1) :
               ~associations[item_id][j][2]
         /\ AddPropertyAssociationCall(item_id, ipco_index, TRUE, position))
        => /\ LinksTo(associations', item_id, ipco_index + 1)
                = LinksTo(associations, item_id, ipco_index + 1)
           /\ Cardinality(LinksTo(associations', item_id, ipco_index + 1)) = 1
           /\ \A j \in LinksTo(associations', item_id, ipco_index + 1) :
                 associations'[item_id][j] = <<ipco_index + 1, TRUE>>
           /\ Len(associations'[item_id]) = Len(associations[item_id])
           /\ needs_rewrite'["ipma"]
    ]_graphVars

\* The first call inserted a non-essential association, the second call
\* made it essential.
C8_Witness ==
    /\ prevCall.op = "add_property_association" /\ ~prevCall.essential /\ prevCall.changed
    /\ lastCall.op = "add_property_association" /\ lastCall.essential
    /\ lastCall.item = prevCall.item /\ lastCall.index = prevCall.index
    /\ \E j \in LinksTo(associations, lastCall.item, lastCall.index + 1) :
          associations[lastCall.item][j] = <<lastCall.index + 1, TRUE>>
    /\ needs_rewrite["ipma"] /\ needs_rewrite["iprp"] /\ needs_rewrite["meta"]

\* Every association refers to an entry of ipco.
IndexRangeInvariant == failed \/ AllInRange(ipco, associations)

\* C21. No stale associations are written: whenever a mutation-API call
\* changes the association table (an index or an essential flag of any
\* item), the ipma box is marked needs_rewrite; marks are never removed, so
\* a table that differs from the parsed one has a marked ipma box.
C21_NoStaleAssociations ==
    [][associations' # associations => needs_rewrite'["ipma"]]_graphVars

\* A marked box has every ancestor marked, up to its top-level box: the
\* named boxes, and the property boxes of ipco.
DirtyClosed(co, nr) ==
    /\ \A b \in BoxNames : (nr[b] /\ ParentOf(b) # "none") => nr[ParentOf(b)]
    /\ \A k \in 1..Len(co) : co[k].needs_rewrite => nr["ipco"]

\* The calls that leave the boxes of ipco where they are.
KeepsIpcoPrefix(call) ==
    call.op \in {"add_property_for_item", "add_property_association",
                 "remove_property_associations"}

\* No step resets needs_rewrite of a box.
NeverReset ==
    /\ \A b \in BoxNames : (needs_rewrite[b] => needs_rewrite'[b])
    /\ KeepsIpcoPrefix(lastCall')
          => (\A k \in 1..Len(ipco) : (ipco[k].needs_rewrite => ipco'[k].needs_rewrite))

\* C22. Dirty closure invariant: in every reachable state a box with
\* needs_rewrite = true has needs_rewrite = true on every ancestor up to its
\* top-level box, boxes created by the mutation API included; and no step
\* resets needs_rewrite of a box to false.
C22_DirtyClosure ==
    /\ [](DirtyClosed(ipco, needs_rewrite))
    /\ [][NeverReset]_graphVars

\* A property box created by a call is marked, with ipco, iprp and meta,
\* next to a parsed property box that is not; the boxes of the other
\* top-level boxes are not marked.
C22_Witness ==
    /\ \E k \in 1..Len(ipco) : ipco[k].needs_rewrite /\ ipco[k].size = 0
    /\ \E k \in 1..Len(ipco) : ~ipco[k].needs_rewrite
    /\ needs_rewrite["ipco"] /\ needs_rewrite["iprp"] /\ needs_rewrite["meta"]
    /\ ~needs_rewrite["moov"] /\ ~needs_rewrite["iloc"]

\* The associations of an item as (type, header, body, essential) of the
\* boxes they refer to.
AssocBoxes(co, assocs) ==
    [j \in 1..Len(assocs) |->
        <<co[assocs[j][1]].type, co[assocs[j][1]].header, co[assocs[j][1]].body,
          assocs[j][2]>>]

\* The positions of the associations remove_property_associations would
\* remove for the type and the optional header and body.
MatchingPositions(co, assocs, property_type, header, body) ==
    {j \in 1..Len(assocs) :
        /\ co[assocs[j][1]].type = property_type
        /\ header = HeaderNone \/ co[assocs[j][1]].header = header
        /\ body = BodyNone \/ co[assocs[j][1]].body = body}

\* The entries of seq at the positions of keep, in their order.
RECURSIVE Restrict(_, _)
Restrict(seq, keep) ==
    IF seq = <<>> THEN <<>>
    ELSE Restrict(SubSeq(seq, 1, Len(seq) - 1), keep)
           \o (IF Len(seq) \in keep THEN <<seq[Len(seq)]>> ELSE <<>>)

\* seq without its entry at position k.
RemoveAt(seq, k) == Restrict(seq, (1..Len(seq)) \ {k})

\* The associations that did not match are the other associations after the
\* call, in their order; the one to the new property may have been among
\* them.
OthersKept(first, kept, after) ==
    \/ kept = RemoveAt(after, first)
    \/ /\ Len(kept) = Len(after)
       /\ SubSeq(kept[first], 1, 3) = SubSeq(after[first], 1, 3)
       /\ RemoveAt(kept, first) = RemoveAt(after, first)

\* What C27 asks of a replace call for property p whose first match was at
\* position first (1-based) of the list before.
ReplacedAt(p, first, before, after, matching) ==
    /\ first <= Len(after)
    /\ {j \in 1..Len(after) : SubSeq(after[j], 1, 3) = p} = {first}
    /\ after[first][4] = before[first][4]
    /\ OthersKept(first, Restrict(before, (1..Len(before)) \ matching), after)

\* A replace call for an item with an association that matches.
ReplacesMatch(p, item_id, h, b) ==
    /\ hasIprp /\ ~failed'
    /\ lastCall'.op = "replace_property_for_item"
    /\ lastCall'.item = item_id /\ lastCall'.prop = p
    /\ AllInRange(ipco, associations)
    /\ MatchingPositions(ipco, Get(associations, item_id), p[1], h, b) # {}
    /\ ReplacePropertyForItemCall(p, item_id, h, b)

\* The item has an association to property p that does not match.
LinkedOutsideMatch(p, item_id, h, b) ==
    \E j \in 1..Len(Get(associations, item_id)) :
        /\ j \notin MatchingPositions(ipco, Get(associations, item_id), p[1], h, b)
        /\ SubSeq(AssocBoxes(ipco, Get(associations, item_id))[j], 1, 3) = p

ReplaceResult(p, item_id, h, b) ==
    ReplacedAt(p,
               Min(MatchingPositions(ipco, Get(associations, item_id), p[1], h, b)),
               AssocBoxes(ipco, Get(associations, item_id)),
               AssocBoxes(ipco', Get(associations', item_id)),
               MatchingPositions(ipco, Get(associations, item_id), p[1], h, b))

\* C27 as stated. replace_property keeps position and essential flag: if
\* the item has an association matching the type and the optional old
\* header and body, the first at position p with flag e, then after
\* replace_property_for_item the item has exactly one association to the
\* new property, at position p with flag e, and its other associations are
\* the ones that did not match, in their original order.
C27_ReplaceKeepsPositionAlways ==
    [][\A p \in PropInputs, item_id \in Items, h \in HeaderFilters, b \in BodyFilters :
        ReplacesMatch(p, item_id, h, b) => ReplaceResult(p, item_id, h, b)]_graphVars

\* C27. replace_property keeps position and essential flag, for an item
\* whose associations to the new property, if any, are among the matching
\* ones: the first match being at position p with flag e, after
\* replace_property_for_item the item has exactly one association to the
\* new property, at position p with flag e, and its other associations are
\* the ones that did not match, in their original order.
C27_ReplaceKeepsPosition ==
    [][\A p \in PropInputs, item_id \in Items, h \in HeaderFilters, b \in BodyFilters :
        (ReplacesMatch(p, item_id, h, b) /\ ~LinkedOutsideMatch(p, item_id, h, b))
           => ReplaceResult(p, item_id, h, b)]_graphVars

\* A replace call has put a property box it created first in the list of
\* an item, before an association the item keeps.
C27_Witness ==
    /\ lastCall.op = "replace_property_for_item" /\ lastCall.changed /\ ~failed
    /\ Len(Get(associations, lastCall.item)) = 2
    /\ SubSeq(AssocBoxes(ipco, associations[lastCall.item])[1], 1, 3) = lastCall.prop
    /\ ipco[associations[lastCall.item][1][1]].needs_rewrite
    /\ ~ipco[associations[lastCall.item][2][1]].needs_rewrite

\* add_property_association is called for a pair the item already has,
\* with essential = false or for an association that is essential.
AddsExistingPair(item_id, ipco_index, essential, position) ==
    /\ hasIprp /\ ~failed'
    /\ lastCall'.op = "add_property_association"
    /\ lastCall'.item = item_id /\ lastCall'.index = ipco_index
    /\ lastCall'.essential = essential
    /\ LinksTo(associations, item_id, ipco_index + 1) # {}
    /\ ~essential \/ \A j \in LinksTo(associations, item_id, ipco_index + 1) :
                        associations[item_id][j][2]
    /\ AddPropertyAssociationCall(item_id, ipco_index, essential, position)

\* C28. add_association is a no-op on an existing pair: a call of
\* add_property_association for an (item, property) pair that exists, with
\* essential = false, or with essential = true when the association is
\* essential, leaves every association list with its flags and positions,
\* whatever position is given, and the dirty flag of every box unchanged.
C28_AddExistingIsNoOp ==
    [][\A item_id \in Items, ipco_index \in 0..MaxProps, essential \in BOOLEAN,
          position \in Positions :
        AddsExistingPair(item_id, ipco_index, essential, position)
          => /\ associations' = associations
             /\ ipco' = ipco
             /\ needs_rewrite' = needs_rewrite]_graphVars

\* add_property_association has been called with essential = false for an
\* essential association, the second of its item, in a file no call has
\* changed.
C28_Witness ==
    /\ hasIprp /\ ~failed
    /\ lastCall.op = "add_property_association" /\ ~lastCall.changed /\ ~lastCall.essential
    /\ Len(Get(associations, lastCall.item)) = 2
    /\ associations[lastCall.item][2] = <<lastCall.index + 1, TRUE>>
    /\ needs_rewrite = CleanTree

(***************************************************************************)
(* Read access to the property graph of a parsed file.                     *)
(***************************************************************************)
\* ParsedFile.get_item_properties_for_item: [outcome, properties].  The
\* loop stops at the first association that fails the assertion or the
\* list access.
GetItemPropertiesForItem(g, item_id) ==
    IF ~g.present THEN [outcome |-> "ok", properties |-> <<>>]
    ELSE
    LET assocs == Get(g.assoc, item_id)
        n == Len(g.ipco)
        asserted == {i \in 1..Len(assocs) : ~(1 <= assocs[i][1] /\ assocs[i][1] <= n + 1)}
        unindexable == {i \in 1..Len(assocs) : ~(assocs[i][1] - 1 < n)}
    IN IF asserted \cup unindexable = {}
       THEN [outcome |-> "ok",
             properties |-> [i \in 1..Len(assocs) |-> <<g.ipco[assocs[i][1]], assocs[i][2]>>]]
       ELSE IF Min(asserted \cup unindexable) \in asserted
       THEN [outcome |-> "AssertionError", properties |-> <<>>]
       ELSE [outcome |-> "IndexError", properties |-> <<>>]

\* Association lists as parse_ipma_box reads them: it stores every index
\* the file holds, in range or not.
ParsedAssocEntries(n) == (0..(n + 2)) \X BOOLEAN
ParsedAssocLists(n) ==
    {<<>>} \cup {<<a>> : a \in ParsedAssocEntries(n)}
           \cup {<<a, b>> : a \in ParsedAssocEntries(n), b \in ParsedAssocEntries(n)}

InitRead ==
    /\ hasIprp \in BOOLEAN
    /\ failed = FALSE
    /\ needs_rewrite = CleanTree
    /\ lastCall = NoCall
    /\ prevCall = NoCall
    /\ calls = 0
    /\ read_result = NoRead
    /\ FixIdle
    /\ AuxIdle
    /\ WriteIdle
    /\ IF hasIprp
       THEN /\ \E triples \in ParsedIpcoChoices : ipco = ParsedProps(triples, IpcoBodyStart)
            /\ associations \in [Items -> ParsedAssocLists(Len(ipco))]
            /\ \A it \in Items : it > 1 => Len(associations[it]) <= 1
       ELSE /\ ipco = <<>>
            /\ associations = [it \in {} |-> <<>>]

\* get_items() reads the properties of one item.
GetItemPropertiesForItemCall(item_id) ==
    /\ ~failed
    /\ read_result' = [item |-> item_id,
                       outcome |-> GetItemPropertiesForItem(Graph, item_id).outcome,
                       properties |-> GetItemPropertiesForItem(Graph, item_id).properties]
    /\ failed' = (GetItemPropertiesForItem(Graph, item_id).outcome # "ok")
    /\ UNCHANGED <<ipco, associations, needs_rewrite, hasIprp, lastCall, prevCall, calls>>
    /\ UNCHANGED fixVars
    /\ UNCHANGED writeVars
    /\ UNCHANGED auxVars

NextRead == \E item_id \in Items : GetItemPropertiesForItemCall(item_id)

SpecRead == InitRead /\ [][NextRead]_vars

\* The associations of item_id that refer to no entry of ipco.
OutOfRange(co, assoc, item_id) ==
    {j \in 1..Len(Get(assoc, item_id)) :
        ~(1 <= Get(assoc, item_id)[j][1] /\ Get(assoc, item_id)[j][1] <= Len(co))}

\* C9. Read access rejects every index outside 1..Len(ipco) by its range
\* assertion: a call of get_item_properties_for_item for an item with such
\* an association ends in an AssertionError.
C9_ReadRejectsOutOfRange ==
    (hasIprp /\ read_result.outcome # "none"
        /\ OutOfRange(ipco, associations, read_result.item) # {})
      => read_result.outcome = "AssertionError"

(***************************************************************************)
(* AV1ElementaryStream: the Sequence Header OBU.  A bit reader value is    *)
(* [pos, bit_pos, ok, parsed]: the position of FileReader.BitReader, ok    *)
(* that is FALSE once a read past the data or an assertion has ended the   *)
(* run, and the dictionary of the fields parsed so far.                    *)
(***************************************************************************)
RECURSIVE Pow2(_)
Pow2(n) == IF n <= 0 THEN 1 ELSE 2 * Pow2(n - 1)

\* BitReader.__init__.
BitReader ==
    [pos |-> 0, bit_pos |-> 0, ok |-> TRUE, error |-> "none", parsed |-> [x \in {} |-> 0]]

\* BitReader.get_next_bit for the k-th bit of the data, counted from 0.
GetNextBit(data, k) == (data[(k \div 8) + 1] \div Pow2(7 - (k % 8))) % 2

\* BitReader.f: the value of the next num_bits bits, from bit k on.
RECURSIVE BitsValue(_, _, _, _)
BitsValue(data, k, num_bits, value) ==
    IF num_bits <= 0 THEN value
    ELSE BitsValue(data, k + 1, num_bits - 1, 2 * value + GetNextBit(data, k))

\* parsed[name] = reader.f(num_bits); data[pos] fails past the data.
F(data, st, name, num_bits) ==
    IF ~st.ok THEN st
    ELSE IF 8 * st.pos + st.bit_pos + num_bits > 8 * Len(data)
    THEN [st EXCEPT !.ok = FALSE, !.error = "IndexError"]
    ELSE [pos |-> (8 * st.pos + st.bit_pos + num_bits) \div 8,
          bit_pos |-> (8 * st.pos + st.bit_pos + num_bits) % 8,
          ok |-> TRUE,
          error |-> "none",
          parsed |-> (name :> BitsValue(data, 8 * st.pos + st.bit_pos, num_bits, 0))
                        @@ st.parsed]

\* parsed[name] = value.
Assign(st, name, value) ==
    IF ~st.ok THEN st ELSE [st EXCEPT !.parsed = (name :> value) @@ @]

\* parsed[name], a KeyError when the field was never set.
HasKey(st, name) == name \in DOMAIN st.parsed

\* The exception that ends the parse.
Failed(st, error) == [st EXCEPT !.ok = FALSE, !.error = error]

\* The names of the fields of operating point i.
OpName(name, i) == name \o "[" \o ToString(i) \o "]"

\* _parse_av1_sequence_header_obu, the operating points of a header that is
\* not reduced.
OpDelayMinus1(data, st, i) ==
    IF st.ok /\ st.parsed[OpName("initial_display_delay_present_for_this_op", i)] # 0
    THEN F(data, st, OpName("initial_display_delay_minus_1", i), 4)
    ELSE st

OpDelay(data, st, i) ==
    IF st.ok /\ st.parsed["initial_display_delay_present_flag"] # 0
    THEN OpDelayMinus1(data,
             F(data, st, OpName("initial_display_delay_present_for_this_op", i), 1), i)
    ELSE st

OpTier(data, st, i) ==
    IF ~st.ok THEN st
    ELSE IF st.parsed[OpName("seq_level_idx", i)] > 7
    THEN F(data, st, OpName("seq_tier", i), 1)
    ELSE Assign(st, OpName("seq_tier", i), 0)

OperatingPoint(data, st, i) ==
    OpDelay(data,
        Assign(OpTier(data,
                   F(data, F(data, st, OpName("operating_point_idc", i), 12),
                     OpName("seq_level_idx", i), 5),
                   i),
               OpName("decoder_model_present_for_this_op", i), 0),
        i)

RECURSIVE OperatingPoints(_, _, _)
OperatingPoints(data, st, i) ==
    IF ~st.ok \/ i > st.parsed["operating_points_cnt_minus_1"] THEN st
    ELSE OperatingPoints(data, OperatingPoint(data, st, i), i + 1)

TimingInfo(st) ==
    IF st.ok /\ st.parsed["timing_info_present_flag"] # 0 THEN Failed(st, "AssertionError")
    ELSE st

\* The fields before frame_width_bits_minus_1.
ReducedOperatingPoint(data, st) ==
    Assign(Assign(Assign(
        F(data,
          Assign(Assign(Assign(Assign(Assign(st,
              "timing_info_present_flag", 0),
              "decoder_model_info_present_flag", 0),
              "initial_display_delay_present_flag", 0),
              "operating_points_cnt_minus_1", 0),
              "operating_point_idc[0]", 0),
          "seq_level_idx[0]", 5),
        "seq_tier[0]", 0),
        "decoder_model_present_for_this_op[0]", 0),
        "initial_display_delay_present_for_this_op[0]", 0)

FullOperatingPoints(data, st) ==
    OperatingPoints(data,
        F(data,
          F(data,
            Assign(TimingInfo(F(data, st, "timing_info_present_flag", 1)),
                   "decoder_model_info_present_flag", 0),
            "initial_display_delay_present_flag", 1),
          "operating_points_cnt_minus_1", 5),
        0)

HeaderStart(data, st) ==
    F(data, F(data, F(data, st, "seq_profile", 3), "still_picture", 1),
      "reduced_still_picture_header", 1)

Reduced(st) == st.parsed["reduced_still_picture_header"] # 0

OperatingPointFields(data, st) ==
    IF ~st.ok THEN st
    ELSE IF Reduced(st) THEN ReducedOperatingPoint(data, st)
    ELSE FullOperatingPoints(data, st)

\* frame_width_bits_minus_1 .. max_frame_height_minus_1.
FrameSizeBits(data, st) ==
    F(data, F(data, st, "frame_width_bits_minus_1", 4), "frame_height_bits_minus_1", 4)

MaxFrameWidth(data, st) ==
    IF ~st.ok THEN st
    ELSE F(data, st, "max_frame_width_minus_1", st.parsed["frame_width_bits_minus_1"] + 1)

MaxFrameHeight(data, st) ==
    IF ~st.ok THEN st
    ELSE F(data, st, "max_frame_height_minus_1", st.parsed["frame_height_bits_minus_1"] + 1)

\* frame_id_numbers_present_flag and the lengths that follow it.
FrameIdFlag(data, st) ==
    IF ~st.ok THEN st
    ELSE IF Reduced(st) THEN Assign(st, "frame_id_numbers_present_flag", 0)
    ELSE F(data, st, "frame_id_numbers_present_flag", 1)

FrameIdLengths(data, st) ==
    IF st.ok /\ st.parsed["frame_id_numbers_present_flag"] # 0
    THEN F(data, F(data, st, "delta_frame_id_length_minus_2", 4),
           "additional_frame_id_length_minus_1", 3)
    ELSE st

FilterFlags(data, st) ==
    F(data, F(data, F(data, st, "use_128x128_superblock", 1), "enable_filter_intra", 1),
      "enable_intra_edge_filter", 1)

\* The tool flags of a reduced header.
ReducedTools(st) ==
    Assign(Assign(Assign(Assign(Assign(Assign(Assign(Assign(Assign(st,
        "enable_interintra_compound", 0),
        "enable_masked_compound", 0),
        "enable_warped_motion", 0),
        "enable_dual_filter", 0),
        "enable_order_hint", 0),
        "enable_jnt_comp", 0),
        "enable_ref_frame_mvs", 0),
        "seq_force_screen_content_tools", 2),
        "seq_choose_integer_mv", 2)

\* The tool flags of a header that is not reduced.
OrderHintTools(data, st) ==
    IF ~st.ok THEN st
    ELSE IF st.parsed["enable_order_hint"] # 0
    THEN F(data, F(data, st, "enable_jnt_comp", 1), "enable_ref_frame_mvs", 1)
    ELSE Assign(Assign(st, "enable_jnt_comp", 0), "enable_ref_frame_mvs", 0)

ScreenContentTools(data, st) ==
    IF ~st.ok THEN st
    ELSE IF st.parsed["seq_choose_screen_content_tools"] # 0
    THEN Assign(st, "seq_force_screen_content_tools", 2)
    ELSE F(data, st, "seq_force_screen_content_tools", 1)

ForceIntegerMv(data, st) ==
    IF ~st.ok THEN st
    ELSE IF st.parsed["seq_choose_integer_mv"] # 0
    THEN Assign(st, "seq_force_integer_mv", 2)
    ELSE F(data, st, "seq_force_integer_mv", 1)

IntegerMv(data, st) ==
    IF ~st.ok THEN st
    ELSE IF st.parsed["seq_force_screen_content_tools"] > 0
    THEN ForceIntegerMv(data, F(data, st, "seq_choose_integer_mv", 1))
    ELSE Assign(st, "seq_force_integer_mv", 2)

OrderHintBits(data, st) ==
    IF st.ok /\ st.parsed["enable_order_hint"] # 0
    THEN F(data, st, "order_hint_bits_minus_1", 3)
    ELSE st

FullTools(data, st) ==
    OrderHintBits(data,
        IntegerMv(data,
            ScreenContentTools(data,
                F(data,
                  OrderHintTools(data,
                      F(data, F(data, F(data, F(data, F(data, st,
                          "enable_interintra_compound", 1),
                          "enable_masked_compound", 1),
                          "enable_warped_motion", 1),
                          "enable_dual_filter", 1),
                          "enable_order_hint", 1)),
                  "seq_choose_screen_content_tools", 1))))

Tools(data, st) ==
    IF ~st.ok THEN st
    ELSE IF Reduced(st) THEN ReducedTools(st)
    ELSE FullTools(data, st)

PostFilters(data, st) ==
    F(data, F(data, F(data, st, "enable_superres", 1), "enable_cdef", 1),
      "enable_restoration", 1)

\* color_config(): the bit depth; bitdepth is unbound for seq_profile > 2.
BitDepth(data, st) ==
    IF ~st.ok THEN st
    ELSE IF st.parsed["seq_profile"] = 2 /\ st.parsed["high_bitdepth"] # 0
    THEN F(data, st, "twelve_bit", 1)
    ELSE st

CalculatedBitDepth(st) ==
    IF ~st.ok THEN st
    ELSE IF st.parsed["seq_profile"] = 2 /\ st.parsed["high_bitdepth"] # 0
    THEN Assign(st, "calculated_bitdepth", IF st.parsed["twelve_bit"] # 0 THEN 12 ELSE 10)
    ELSE IF st.parsed["seq_profile"] <= 2
    THEN Assign(st, "calculated_bitdepth", IF st.parsed["high_bitdepth"] # 0 THEN 10 ELSE 8)
    ELSE Failed(st, "UnboundLocalError")

MonoChrome(data, st) ==
    IF ~st.ok THEN st
    ELSE IF st.parsed["seq_profile"] # 1 THEN F(data, st, "mono_chrome", 1)
    ELSE Assign(st, "mono_chrome", 0)

NumPlanes(st) ==
    IF ~st.ok THEN st
    ELSE Assign(st, "calculated_numplanes", IF st.parsed["mono_chrome"] # 0 THEN 1 ELSE 3)

ColorDescription(data, st) ==
    IF ~st.ok THEN st
    ELSE IF st.parsed["color_description_present_flag"] # 0
    THEN F(data, F(data, F(data, st, "color_primaries", 8), "transfer_characteristics", 8),
           "matrix_coefficients", 8)
    ELSE Assign(Assign(Assign(st, "color_primaries", 2), "transfer_characteristics", 2),
                "matrix_coefficients", 2)

\* color_config(): color_range and the chroma layout.
MonoLayout(data, st) ==
    Assign(Assign(Assign(F(data, st, "color_range", 1), "subsampling_x", 1),
                  "subsampling_y", 1),
           "chroma_sample_position", 0)

SrgbLayout(st) ==
    Assign(Assign(Assign(st, "color_range", 1), "subsampling_x", 0), "subsampling_y", 0)

CodedSubsamplingY(data, st) ==
    IF ~st.ok THEN st
    ELSE IF st.parsed["subsampling_x"] # 0 THEN F(data, st, "subsampling_y", 1)
    ELSE Assign(st, "subsampling_y", 0)

\* parsed["twelve_bit"] is a KeyError when the field was not read.
Profile2Layout(data, st) ==
    IF ~st.ok THEN st
    ELSE IF ~HasKey(st, "twelve_bit") THEN Failed(st, "KeyError")
    ELSE IF st.parsed["twelve_bit"] # 0
    THEN CodedSubsamplingY(data, F(data, st, "subsampling_x", 1))
    ELSE Assign(Assign(st, "subsampling_x", 1), "subsampling_y", 0)

ProfileLayout(data, st) ==
    IF ~st.ok THEN st
    ELSE IF st.parsed["seq_profile"] = 0
    THEN Assign(Assign(st, "subsampling_x", 1), "subsampling_y", 1)
    ELSE IF st.parsed["seq_profile"] = 1
    THEN Assign(Assign(st, "subsampling_x", 0), "subsampling_y", 0)
    ELSE Profile2Layout(data, st)

ChromaSamplePosition(data, st) ==
    IF st.ok /\ st.parsed["subsampling_x"] # 0 /\ st.parsed["subsampling_y"] # 0
    THEN F(data, st, "chroma_sample_position", 2)
    ELSE st

CodedLayout(data, st) ==
    ChromaSamplePosition(data, ProfileLayout(data, F(data, st, "color_range", 1)))

NeverSrgb(st) == FALSE

IsSrgb(st) ==
    /\ st.parsed["color_primaries"] = 1
    /\ st.parsed["transfer_characteristics"] = 13
    /\ st.parsed["matrix_coefficients"] = 0

ChromaLayout(data, st) ==
    IF ~st.ok THEN st
    ELSE IF st.parsed["mono_chrome"] # 0 THEN MonoLayout(data, st)
    ELSE IF IsSrgb(st) THEN SrgbLayout(st)
    ELSE CodedLayout(data, st)

\* color_config() up to matrix_coefficients.
ColorDescriptionFields(data, st) ==
    ColorDescription(data,
        F(data,
          NumPlanes(MonoChrome(data,
              CalculatedBitDepth(BitDepth(data, F(data, st, "high_bitdepth", 1))))),
          "color_description_present_flag", 1))

ColorConfig(data, st) ==
    F(data, ChromaLayout(data, ColorDescriptionFields(data, st)), "separate_uv_delta_q", 1)

\* AV1ElementaryStream._parse_av1_sequence_header_obu on the bytes of the
\* OBU: [pos, bit_pos, ok, parsed].
\* The fields before color_config().
BeforeColorConfig(data) ==
    PostFilters(data,
        Tools(data,
            FilterFlags(data,
                FrameIdLengths(data,
                    FrameIdFlag(data,
                        MaxFrameHeight(data,
                            MaxFrameWidth(data,
                                FrameSizeBits(data,
                                    OperatingPointFields(data,
                                        HeaderStart(data, BitReader))))))))))

ParseAv1SequenceHeaderObu(data) ==
    F(data, ColorConfig(data, BeforeColorConfig(data)), "film_grain_params_present", 1)

\* AV1ElementaryStream.generate_ispe_from_sequence_header.
GenerateIspeFromSequenceHeader(sh_body) ==
    [width |-> sh_body["max_frame_width_minus_1"] + 1,
     height |-> sh_body["max_frame_height_minus_1"] + 1]

\* What is kept of a finished parse: how it ended, the dictionary returned
\* and the number of bits read.
BitsRead(st) == 8 * st.pos + st.bit_pos

SequenceHeaderOf(st) ==
    [outcome |-> IF st.ok THEN "parsed" ELSE st.error,
     body |-> st.parsed,
     bits |-> BitsRead(st)]

(***************************************************************************)
(* Sequence Header OBUs, written field by field as the syntax of           *)
(* _parse_av1_sequence_header_obu reads them.                              *)
(***************************************************************************)
FrameSizeBitsMinus1 == 3

\* The size of the coded image of every item.
ImageWidth == 4
ImageHeight == 4

\* The num_bits bits of value, most significant first.
RECURSIVE ToBits(_, _)
ToBits(value, num_bits) ==
    IF num_bits <= 0 THEN <<>>
    ELSE Append(ToBits(value \div 2, num_bits - 1), value % 2)

RECURSIVE Repeat(_, _)
Repeat(bit, n) == IF n <= 0 THEN <<>> ELSE <<bit>> \o Repeat(bit, n - 1)

\* The bytes of a bit string, padded with zero bits.
RECURSIVE PackBits(_)
PackBits(bits) ==
    IF Len(bits) = 0 THEN <<>>
    ELSE IF Len(bits) < 8 THEN PackBits(bits \o Repeat(0, 8 - Len(bits)))
    ELSE <<128 * bits[1] + 64 * bits[2] + 32 * bits[3] + 16 * bits[4]
             + 8 * bits[5] + 4 * bits[6] + 2 * bits[7] + bits[8]>>
         \o PackBits(SubSeq(bits, 9, Len(bits)))

\* seq_profile, still_picture, reduced_still_picture_header and the
\* operating points: reduced, or one operating point of seq_level_idx level.
EncHeaderStart(seq_profile, reduced, level) ==
    ToBits(seq_profile, 3) \o <<1, reduced>>
      \o (IF reduced = 1 THEN ToBits(level, 5)
          ELSE <<0, 0>> \o ToBits(0, 5) \o ToBits(0, 12) \o ToBits(level, 5)
                 \o (IF level > 7 THEN <<0>> ELSE <<>>))

\* A header with timing_info_present_flag set.
EncTimingInfo(seq_profile) == ToBits(seq_profile, 3) \o <<1, 0, 1>> \o Repeat(0, 58)

\* The frame size fields and frame_id_numbers_present_flag.
EncFrameSize(reduced, width, height) ==
    ToBits(FrameSizeBitsMinus1, 4) \o ToBits(FrameSizeBitsMinus1, 4)
      \o ToBits(width - 1, FrameSizeBitsMinus1 + 1)
      \o ToBits(height - 1, FrameSizeBitsMinus1 + 1)
      \o (IF reduced = 1 THEN <<>> ELSE <<0>>)

\* The tool flags, all equal to bit in a header that is not reduced.
EncTools(reduced, bit) ==
    Repeat(bit, 3)
      \o (IF reduced = 1 THEN <<>>
          ELSE IF bit = 1 THEN Repeat(1, 12)
          ELSE Repeat(0, 5) \o <<0, 1, 0, 1>>)
      \o Repeat(bit, 3)

\* color_config() up to matrix_coefficients; description is <<>> or the
\* three coded values.
EncColorConfig(seq_profile, high_bitdepth, twelve_bit, mono_chrome, description) ==
    <<high_bitdepth>>
      \o (IF seq_profile = 2 /\ high_bitdepth = 1 THEN <<twelve_bit>> ELSE <<>>)
      \o (IF seq_profile # 1 THEN <<mono_chrome>> ELSE <<>>)
      \o (IF description = <<>> THEN <<0>>
          ELSE <<1>> \o ToBits(description[1], 8) \o ToBits(description[2], 8)
                 \o ToBits(description[3], 8))

Profiles == 0..3
Descriptions == {<<>>, <<1, 13, 0>>, <<1, 13, 6>>, <<2, 2, 0>>}
\* The bits after matrix_coefficients, and how many of them the OBU holds.
TailBits == {<<0, 0, 0, 0, 0, 0, 0>>, <<1, 1, 1, 1, 1, 1, 1>>, <<0, 1, 0, 1, 0, 1, 0>>,
             <<1, 0, 1, 0, 1, 0, 1>>}
TailLengths == {1, 7}

EncSequenceHeader(seq_profile, reduced, high_bitdepth, twelve_bit, mono_chrome,
                  description, tail) ==
    PackBits(EncHeaderStart(seq_profile, reduced, IF reduced = 1 THEN 0 ELSE 8)
               \o EncFrameSize(reduced, ImageWidth, ImageHeight)
               \o EncTools(reduced, high_bitdepth)
               \o EncColorConfig(seq_profile, high_bitdepth, twelve_bit, mono_chrome,
                                 description)
               \o tail)

ObuInputs ==
    {EncSequenceHeader(c[1], c[2], c[3], c[4], c[5], c[6], SubSeq(c[7], 1, c[8])) :
        c \in Profiles \X {0, 1} \X {0, 1} \X {0, 1} \X {0, 1} \X Descriptions
                \X TailBits \X TailLengths}
      \cup {PackBits(EncTimingInfo(p)) : p \in Profiles}

(***************************************************************************)
(* The parse of the Sequence Header OBU of an item.                        *)
(***************************************************************************)
InitObu ==
    /\ obu_data \in ObuInputs
    /\ sequence_header = NoSequenceHeader
    /\ args = NoArgs
    /\ default_nclx = DefaultNclx
    /\ hasIprp = FALSE
    /\ failed = FALSE
    /\ ipco = <<>>
    /\ associations = [it \in Items |-> <<>>]
    /\ needs_rewrite = CleanTree
    /\ lastCall = NoCall
    /\ prevCall = NoCall
    /\ calls = 0
    /\ read_result = NoRead
    /\ FixIdle
    /\ WriteIdle

\* body = parse_function(reader.bit_reader_for_bytes(obu_size)).
ParseSequenceHeaderStep ==
    /\ sequence_header.outcome = "none"
    /\ sequence_header' = SequenceHeaderOf(ParseAv1SequenceHeaderObu(obu_data))
    /\ UNCHANGED <<ipco, associations, needs_rewrite, hasIprp, failed, lastCall, prevCall,
                   calls, read_result, obu_data, args, default_nclx>>
    /\ UNCHANGED fixVars
    /\ UNCHANGED writeVars

NextObu == ParseSequenceHeaderStep

SpecObu == InitObu /\ [][NextObu]_vars

\* The header has been parsed and has the coded color description
\* color_primaries = 1, transfer_characteristics = 13, matrix_coefficients = 0.
SrgbParsed ==
    /\ sequence_header.outcome = "parsed"
    /\ sequence_header.body["color_description_present_flag"] = 1
    /\ sequence_header.body["color_primaries"] = 1
    /\ sequence_header.body["transfer_characteristics"] = 13
    /\ sequence_header.body["matrix_coefficients"] = 0

\* color_range = 1, subsampling 0, 0, and after matrix_coefficients only the
\* bits of separate_uv_delta_q and film_grain_params_present are read.
SrgbShortcutTaken ==
    /\ sequence_header.body["color_range"] = 1
    /\ sequence_header.body["subsampling_x"] = 0
    /\ sequence_header.body["subsampling_y"] = 0
    /\ sequence_header.bits
          = BitsRead(ColorDescriptionFields(obu_data, BeforeColorConfig(obu_data))) + 2

\* C17 as stated. sRGB shortcut: every parsed Sequence Header whose coded
\* color description is 1, 13, 0 yields color_range = 1 and subsampling
\* 0, 0 and reads no color_range or subsampling bits, whatever the other
\* header fields are.
C17_SrgbShortcutAlways == SrgbParsed => SrgbShortcutTaken

\* C17. sRGB shortcut: every parsed Sequence Header with mono_chrome = 0
\* whose coded color description is 1, 13, 0 yields color_range = 1 and
\* subsampling 0, 0 and reads no color_range or subsampling bits, whatever
\* the bits that follow are.
C17_SrgbShortcut ==
    (SrgbParsed /\ sequence_header.body["mono_chrome"] = 0) => SrgbShortcutTaken

\* A colour header with the sRGB description has been parsed from an OBU
\* whose following bits are all set.
C17_Witness ==
    /\ SrgbParsed
    /\ sequence_header.body["mono_chrome"] = 0
    /\ sequence_header.body["separate_uv_delta_q"] = 1
    /\ sequence_header.body["film_grain_params_present"] = 1

\* The parse ended in the header itself, not at the end of the data or at
\* the timing_info assertion.
DecodedOrBroken ==
    /\ sequence_header.outcome \in {"parsed", "KeyError", "UnboundLocalError"}
    /\ sequence_header.body["seq_profile"] \in {0, 1, 2}

Subsampling == <<sequence_header.body["subsampling_x"], sequence_header.body["subsampling_y"]>>

NotSrgbShortcut ==
    ~(/\ sequence_header.body["color_primaries"] = 1
      /\ sequence_header.body["transfer_characteristics"] = 13
      /\ sequence_header.body["matrix_coefficients"] = 0)

\* The chroma layout by profile of a header that is not mono_chrome.
ProfileDriven ==
    /\ sequence_header.body["seq_profile"] = 0 => Subsampling = <<1, 1>>
    /\ sequence_header.body["seq_profile"] = 1 => Subsampling = <<0, 0>>
    /\ (sequence_header.body["seq_profile"] = 2
          /\ sequence_header.body["calculated_bitdepth"] \in {8, 10})
        => Subsampling = <<1, 0>>

\* C18. Chroma layout is total and profile-driven: for every Sequence
\* Header with seq_profile in {0, 1, 2} and every high_bitdepth and
\* twelve_bit, decoding succeeds; mono_chrome = 1 gives subsampling 1, 1 and
\* chroma_sample_position 0; otherwise, outside the sRGB shortcut, profile 0
\* gives 1, 1, profile 1 gives 0, 0 and profile 2 with bit depth 8 or 10
\* gives 1, 0.
C18_ChromaLayoutTotal ==
    DecodedOrBroken =>
        /\ sequence_header.outcome = "parsed"
        /\ sequence_header.body["mono_chrome"] = 1
              => (Subsampling = <<1, 1>> /\ sequence_header.body["chroma_sample_position"] = 0)
        /\ (sequence_header.body["mono_chrome"] = 0 /\ NotSrgbShortcut) => ProfileDriven

(***************************************************************************)
(* The validate / fix pass of process() on the property graph: the ispe    *)
(* and clap rules of validate_av01_item.  Every item is an av01 item whose *)
(* sequence header gives ImageWidth x ImageHeight; the other rules raise   *)
(* no issue.  The output of a pass is the property graph it has written.   *)
(***************************************************************************)
\* float_from_rational, in eighths; the denominators of the model divide 8.
Eighths(r) == (8 * r[1]) \div r[2]

\* int(val) of a float given in eighths: truncation towards zero.
IntOfEighths(x) == IF x >= 0 THEN x \div 8 ELSE -((-x) \div 8)

\* round(num / den) for den > 0: halves go to the even neighbour.
PyRound(num, den) ==
    IF 2 * (num % den) < den THEN num \div den
    ELSE IF 2 * (num % den) > den THEN (num \div den) + 1
    ELSE IF (num \div den) % 2 = 0 THEN num \div den
    ELSE (num \div den) + 1

\* validate_clap_property._origin_from_clap and _offset_from_crop, in eighths.
OriginFromClap(image_dim, clap_dim, clap_offs) ==
    clap_offs + (8 * image_dim - clap_dim) \div 2

OffsetFromCrop(image_dim, clap_dim, origin) ==
    8 * origin + (clap_dim - 8 * image_dim) \div 2

NoBox == [type |-> "none"]

Issue(kind, item_id, fixable, box, body) ==
    [kind |-> kind, item |-> item_id, fix |-> fixable, box |-> box, body |-> body]

\* The 1-based positions of the item properties of the given types.
PositionsOf(props, types) == {i \in 1..Len(props) : props[i][1].type \in types}

\* validate_ispe_property: the issues it returns.  first_transform_index
\* and ispe_index are 0-based; `elif first_transform_index and ...` is
\* false for index 0 as for None.
ValidateIspeProperty(props, item_id) ==
    IF PositionsOf(props, {"ispe"}) = {}
    THEN <<Issue("add_ispe", item_id, TRUE, NoBox, <<>>)>>
    ELSE IF /\ PositionsOf(props, {"clap", "imir", "irot"}) # {}
            /\ Min(PositionsOf(props, {"clap", "imir", "irot"})) - 1 # 0
            /\ Max(PositionsOf(props, {"ispe"})) - 1
                  > Min(PositionsOf(props, {"clap", "imir", "irot"})) - 1
    THEN <<Issue("ispe_order", item_id, TRUE,
                 props[Max(PositionsOf(props, {"ispe"}))][1], <<>>)>>
    ELSE <<>>

\* validate_clap_property, once ispe_box and clap_box are known: origin and
\* dimensions per axis in eighths, trunc_origin in whole pixels.
ClapOrigin(ispe_box, clap_box) ==
    <<OriginFromClap(ispe_box.body.width, Eighths(clap_box.body.width),
                     Eighths(clap_box.body.h_offset)),
      OriginFromClap(ispe_box.body.height, Eighths(clap_box.body.height),
                     Eighths(clap_box.body.v_offset))>>

ClapDimensions(clap_box) ==
    <<Eighths(clap_box.body.width), Eighths(clap_box.body.height)>>

IspeDimensions(ispe_box) == <<ispe_box.body.width, ispe_box.body.height>>

FixedClap(clap_box, ispe_dimensions, dimensions, trunc_origin) ==
    [clap_box.body EXCEPT
        !.h_offset = <<PyRound(2 * OffsetFromCrop(ispe_dimensions[1], dimensions[1],
                                                  trunc_origin[1]), 8), 2>>,
        !.v_offset = <<PyRound(2 * OffsetFromCrop(ispe_dimensions[2], dimensions[2],
                                                  trunc_origin[2]), 8), 2>>]

ClapOriginIssues(item_id, clap_box, ispe_dimensions, dimensions, origin, trunc_origin) ==
    IF \E k \in 1..2 : trunc_origin[k] < 0
    THEN <<Issue("clap_negative", item_id, FALSE, NoBox, <<>>)>>
    ELSE IF \E k \in 1..2 : origin[k] # 8 * trunc_origin[k]
    THEN <<Issue("clap_origin", item_id, TRUE, NoBox,
                 FixedClap(clap_box, ispe_dimensions, dimensions, trunc_origin))>>
    ELSE <<>>

ClapBoundsIssues(item_id, ispe_dimensions, dimensions, trunc_origin) ==
    IF \E k \in 1..2 : 8 * trunc_origin[k] + dimensions[k] > 8 * ispe_dimensions[k]
    THEN <<Issue("clap_bounds", item_id, FALSE, NoBox, <<>>)>>
    ELSE <<>>

ClapIssues(item_id, clap_box, ispe_dimensions, dimensions, origin, trunc_origin) ==
    ClapOriginIssues(item_id, clap_box, ispe_dimensions, dimensions, origin, trunc_origin)
        \o ClapBoundsIssues(item_id, ispe_dimensions, dimensions, trunc_origin)

TruncOrigin(origin) == <<IntOfEighths(origin[1]), IntOfEighths(origin[2])>>

ValidateClap(item_id, ispe_box, clap_box) ==
    ClapIssues(item_id, clap_box, IspeDimensions(ispe_box), ClapDimensions(clap_box),
               ClapOrigin(ispe_box, clap_box),
               TruncOrigin(ClapOrigin(ispe_box, clap_box)))

\* validate_clap_property: ispe_box and clap_box are the last of their
\* type; incorrect_order when an imir or irot precedes every clap.
ValidateClapProperty(props, item_id) ==
    IF PositionsOf(props, {"clap"}) = {} THEN <<>>
    ELSE IF PositionsOf(props, {"ispe"}) = {} THEN <<>>
    ELSE IF \E i \in PositionsOf(props, {"imir", "irot"}) :
               \A j \in PositionsOf(props, {"clap"}) : i < j
    THEN <<>>
    ELSE ValidateClap(item_id, props[Max(PositionsOf(props, {"ispe"}))][1],
                      props[Max(PositionsOf(props, {"clap"}))][1])

\* validate_file: the issues of the items in the order of get_items().
RECURSIVE ValidateItems(_, _)
ValidateItems(g, item_id) ==
    IF item_id > MaxItems THEN <<>>
    ELSE ValidateIspeProperty(GetItemPropertiesForItem(g, item_id).properties, item_id)
            \o ValidateClapProperty(GetItemPropertiesForItem(g, item_id).properties, item_id)
            \o ValidateItems(g, item_id + 1)

ValidateFile(g) == ValidateItems(g, 1)

\* The sequence header of every item: generate_ispe_from_sequence_header.
\* validate_ispe_property: generated_ispe of the item's av01 stream.
GeneratedIspe == GenerateIspeFromSequenceHeader(sequence_header.body)

\* A fix that appends the association instead of inserting it first.
FixAddIspe_Append(g, issue) ==
    AddPropertyForItem(g, "ispe", FullHeader(0, 0), GeneratedIspe, issue.item, TRUE,
                       PositionNone)

\* validate_ispe_property._fix_add_ispe.
FixAddIspe(g, issue) ==
    AddPropertyForItem(g, "ispe", FullHeader(0, 0), GeneratedIspe, issue.item, TRUE, 0)

\* validate_ispe_property._fix_ispe_order.
FixIspeOrder(g, issue) ==
    AddPropertyAssociation(
        RemovePropertyAssociations(g, issue.item, "ispe", HeaderNone, BodyNone).g,
        issue.item,
        GetExistingPropertyIfPresent(g.ipco, "ispe", issue.box.header, issue.box.body),
        TRUE, 0)

\* validate_clap_property._fix_clap_origin.
FixClapOrigin(g, issue) ==
    ReplacePropertyForItem(g, "clap", EmptyHeader, issue.body, issue.item,
                           HeaderNone, BodyNone)

\* BoxIssue.apply_fix: an issue without fix fails the assertion.
ApplyFix(g, issue) ==
    CASE ~issue.fix -> Abort(g)
      [] issue.kind = "add_ispe" -> FixAddIspe(g, issue)
      [] issue.kind = "ispe_order" -> FixIspeOrder(g, issue)
      [] issue.kind = "clap_origin" -> FixClapOrigin(g, issue)
      [] OTHER -> Abort(g)

\* The property boxes of the files the pass starts from.
IspeBox == <<"ispe", FullHeader(0, 0), [width |-> ImageWidth, height |-> ImageHeight]>>

Clap(width, h_offset) ==
    <<"clap", EmptyHeader,
      [width |-> width, height |-> <<ImageHeight, 1>>,
       h_offset |-> h_offset, v_offset |-> <<0, 1>>]>>

IrotBox == <<"irot", EmptyHeader, <<1>>>>

\* clap boxes of ImageHeight rows: centred with an even and with an odd
\* margin, of a width that is no whole number, left of the image, and
\* right of the image.
ClapChoices ==
    {Clap(<<ImageWidth - 2, 1>>, <<0, 1>>),
     Clap(<<ImageWidth - 1, 1>>, <<0, 1>>),
     Clap(<<2 * ImageWidth - 3, 2>>, <<0, 1>>),
     Clap(<<ImageWidth - 1, 1>>, <<-2, 1>>),
     Clap(<<ImageWidth, 1>>, <<1, 1>>)}

FixIpcoChoices ==
    {<<>>, <<IspeBox>>}
        \cup {<<c>> : c \in ClapChoices}
        \cup {<<IspeBox, c>> : c \in ClapChoices}
        \cup {<<c, IspeBox>> : c \in ClapChoices}
        \cup {<<IrotBox, c, IspeBox>> : c \in ClapChoices}

\* Association lists that name no entry twice, all essential.
FixAssocLists(n) ==
    {<<>>} \cup {<<<<a, TRUE>>>> : a \in 1..n}
           \cup {<<<<p[1], TRUE>>, <<p[2], TRUE>>>> :
                    p \in {q \in (1..n) \X (1..n) : q[1] # q[2]}}
           \cup {<<<<p[1], TRUE>>, <<p[2], TRUE>>, <<p[3], TRUE>>>> :
                    p \in {q \in (1..n) \X (1..n) \X (1..n) :
                              q[1] # q[2] /\ q[1] # q[3] /\ q[2] # q[3]}}

MaxPasses == 2

\* What a pass has written: the property boxes and the associations.
Written(co, assoc) ==
    [ipco |-> [k \in 1..Len(co) |-> <<co[k].type, co[k].header, co[k].body>>],
     associations |-> assoc]

\* The Sequence Header OBU of the items: a reduced still picture header of
\* profile 0, 8 bit, without color description.
ItemObu == EncSequenceHeader(0, 1, 0, 0, 0, <<>>, <<0, 0, 0, 0, 0, 0, 0>>)

InitFix ==
    /\ obu_data = ItemObu
    /\ sequence_header = SequenceHeaderOf(ParseAv1SequenceHeaderObu(obu_data))
    /\ args = NoArgs
    /\ default_nclx = DefaultNclx
    /\ hasIprp = TRUE
    /\ failed = FALSE
    /\ needs_rewrite = CleanTree
    /\ lastCall = NoCall
    /\ prevCall = NoCall
    /\ calls = 0
    /\ read_result = NoRead
    /\ WriteIdle
    /\ \E triples \in FixIpcoChoices : ipco = ParsedProps(triples, IpcoBodyStart)
    /\ associations \in [Items -> FixAssocLists(Len(ipco))]
    /\ \A it \in Items : it > 1 => Len(associations[it]) <= 1
    /\ stage = "parsed"
    /\ issues = <<>>
    /\ reported = 0
    /\ fix_pass = 1
    /\ outputs = <<>>

\* process(): validate_file on the parsed file.
ValidateFileStep ==
    /\ stage = "parsed"
    /\ issues' = ValidateFile(Graph)
    /\ reported' = Len(ValidateFile(Graph))
    /\ stage' = "validated"
    /\ UNCHANGED <<ipco, associations, needs_rewrite, hasIprp, failed, lastCall, prevCall,
                   calls, read_result, fix_pass, outputs>>
    /\ UNCHANGED writeVars
    /\ UNCHANGED auxVars

\* The loop of process() taking the issues from the end of the list.
ApplyFixStep_LastFirst ==
    /\ stage = "validated"
    /\ issues # <<>>
    /\ ipco' = ApplyFix(Graph, issues[Len(issues)]).ipco
    /\ associations' = ApplyFix(Graph, issues[Len(issues)]).assoc
    /\ needs_rewrite' = ApplyFix(Graph, issues[Len(issues)]).nr
    /\ failed' = ApplyFix(Graph, issues[Len(issues)]).failed
    /\ stage' = IF ApplyFix(Graph, issues[Len(issues)]).failed THEN "aborted" ELSE stage
    /\ issues' = SubSeq(issues, 1, Len(issues) - 1)
    /\ UNCHANGED <<hasIprp, lastCall, prevCall, calls, read_result, reported, fix_pass,
                   outputs>>
    /\ UNCHANGED writeVars
    /\ UNCHANGED auxVars

\* process(): issue.apply_fix() for the next issue of the list.
ApplyFixStep ==
    /\ stage = "validated"
    /\ issues # <<>>
    /\ ipco' = ApplyFix(Graph, Head(issues)).ipco
    /\ associations' = ApplyFix(Graph, Head(issues)).assoc
    /\ needs_rewrite' = ApplyFix(Graph, Head(issues)).nr
    /\ failed' = ApplyFix(Graph, Head(issues)).failed
    /\ stage' = IF ApplyFix(Graph, Head(issues)).failed THEN "aborted" ELSE stage
    /\ issues' = Tail(issues)
    /\ UNCHANGED <<hasIprp, lastCall, prevCall, calls, read_result, reported, fix_pass,
                   outputs>>
    /\ UNCHANGED writeVars
    /\ UNCHANGED auxVars

\* process(): every fix is applied and write() has written the file; the
\* tool is then run on the file it has written.
WriteOutputStep ==
    /\ stage = "validated"
    /\ issues = <<>>
    /\ outputs' = Append(outputs, Written(ipco, associations))
    /\ IF fix_pass < MaxPasses
       THEN /\ fix_pass' = fix_pass + 1
            /\ stage' = "parsed"
            /\ ipco' = ParsedProps(Written(ipco, associations).ipco, IpcoBodyStart)
            /\ needs_rewrite' = CleanTree
       ELSE /\ stage' = "done"
            /\ UNCHANGED <<fix_pass, ipco, needs_rewrite>>
    /\ UNCHANGED <<associations, hasIprp, failed, lastCall, prevCall, calls, read_result,
                   issues, reported>>
    /\ UNCHANGED writeVars
    /\ UNCHANGED auxVars

NextFix == ValidateFileStep \/ ApplyFixStep \/ WriteOutputStep

SpecFix == InitFix /\ [][NextFix]_vars

\* C10. Idempotence of the fix pass: when the first pass has applied every
\* fix and written its output, validate_file on that output reports no
\* issue, and the second pass writes what the first pass wrote.
C10_FixPassIdempotent ==
    /\ (fix_pass = 2 /\ stage # "parsed") => reported = 0
    /\ Len(outputs) = 2 => outputs[2] = outputs[1]

\* No box of the property graph is marked for rewrite: the graph is as parsed.
Unmutated ==
    /\ needs_rewrite = CleanTree
    /\ \A k \in 1..Len(ipco) : ~ipco[k].needs_rewrite

IspeFirst(co, assocs) ==
    /\ Len(assocs) >= 1
    /\ assocs[1][2]
    /\ assocs[1][1] \in 1..Len(co)
    /\ co[assocs[1][1]].type = "ispe"
    /\ co[assocs[1][1]].header = FullHeader(0, 0)
    /\ co[assocs[1][1]].body.width = sequence_header.body["max_frame_width_minus_1"] + 1
    /\ co[assocs[1][1]].body.height = sequence_header.body["max_frame_height_minus_1"] + 1

\* C19. Missing-ispe fix: applying the fix of a missing-ispe issue puts at
\* position 0 of the item's association list an essential association to an
\* ispe property (version 0, flags 0) whose width and height are
\* max_frame_width_minus_1 + 1 and max_frame_height_minus_1 + 1 of the
\* Sequence Header; the previous associations of the item follow in order.
C19_MissingIspeFix ==
    [][(/\ stage = "validated" /\ issues # <<>> /\ Head(issues).kind = "add_ispe"
        /\ sequence_header.outcome = "parsed"
        /\ ~failed')
          => /\ IspeFirst(ipco', associations'[Head(issues).item])
             /\ Tail(associations'[Head(issues).item]) = associations[Head(issues).item]
      ]_vars

\* In the first pass an ispe box created by the fix is the first
\* association of an item, before the association the item had.
C19_Witness ==
    /\ fix_pass = 1 /\ stage = "validated" /\ issues = <<>> /\ reported > 0
    /\ \E it \in Items :
          /\ Len(associations[it]) >= 2
          /\ IspeFirst(ipco, associations[it])
          /\ ipco[associations[it][1][1]].needs_rewrite
          /\ ipco[associations[it][2][1]].type # "ispe"

AssociatedTypes(co, assocs) == [k \in 1..Len(assocs) |-> co[assocs[k][1]].type]

\* An ispe association of the item comes after a clap, imir or irot one.
IspeAfterTransform(co, assocs) ==
    \E i \in 1..Len(assocs) : \E j \in 1..(i - 1) :
        /\ AssociatedTypes(co, assocs)[i] = "ispe"
        /\ AssociatedTypes(co, assocs)[j] \in {"clap", "imir", "irot"}

\* validate_file has reported the ispe order of the item, with a fix.
IspeOrderReported(list, item_id) ==
    \E k \in 1..Len(list) :
        list[k].kind = "ispe_order" /\ list[k].item = item_id /\ list[k].fix

\* C30. ispe-ordering rule: validate_file reports an ispe-order issue with a
\* fix for every item that has an ispe association after a clap, imir or
\* irot association, also when the first of these is the item's first
\* association; and applying the fix of an ispe-order issue leaves an ispe
\* association first in the item's list, before every clap, imir and irot.
C30_IspeOrderingRule ==
    [][/\ (stage = "parsed" /\ stage' = "validated")
            => \A it \in Items :
                   IspeAfterTransform(ipco, associations[it])
                       => IspeOrderReported(issues', it)
       /\ (/\ stage = "validated" /\ issues # <<>> /\ Head(issues).kind = "ispe_order"
           /\ ~failed')
            => /\ Len(associations'[Head(issues).item]) >= 1
               /\ AssociatedTypes(ipco', associations'[Head(issues).item])[1] = "ispe"
               /\ ~IspeAfterTransform(ipco', associations'[Head(issues).item])
      ]_vars

(***************************************************************************)
(* The start of process(): the checks of the command line and the nclx     *)
(* values assumed for files without a colr box of type nclx.               *)
(***************************************************************************)
NclxValues == 0..2

\* The command lines argparse hands to process().
ArgsChoices ==
    [dry_run : BOOLEAN, interactive : BOOLEAN, dst_file : {"None", "src", "dst"},
     nclx_default : {<<>>} \cup (NclxValues \X NclxValues \X NclxValues \X NclxValues)]

\* process(), l.2730-2740: the command lines that end in sys.exit(1).
Exits(a) ==
    \/ ~a.dry_run /\ a.dst_file = "None"
    \/ a.dry_run /\ a.interactive
    \/ a.dst_file = "src"

\* process(), l.2750-2754: the assignments made for --nclx-default, in the
\* order of the code.
OverrideNclx(nclx, nclx_default) ==
    [[[[nclx EXCEPT !.matrix_coefficients = <<nclx_default[1]>>]
              EXCEPT !.transfer_characteristics = <<nclx_default[2]>>]
              EXCEPT !.matrix_coefficients = <<nclx_default[3]>>]
              EXCEPT !.full_range_flag = <<nclx_default[4]>>]

InitOptions ==
    /\ args \in ArgsChoices
    /\ default_nclx = DefaultNclx
    /\ obu_data = <<>>
    /\ sequence_header = NoSequenceHeader
    /\ hasIprp = FALSE
    /\ failed = FALSE
    /\ ipco = <<>>
    /\ associations = [it \in Items |-> <<>>]
    /\ needs_rewrite = CleanTree
    /\ lastCall = NoCall
    /\ prevCall = NoCall
    /\ calls = 0
    /\ read_result = NoRead
    /\ stage = "start"
    /\ issues = <<>>
    /\ reported = 0
    /\ fix_pass = 0
    /\ outputs = <<>>
    /\ WriteIdle

\* process() up to the opening of the source file.
ProcessOptionsStep ==
    /\ stage = "start"
    /\ stage' = IF Exits(args) THEN "exit" ELSE "options"
    /\ default_nclx' = IF Exits(args) \/ args.nclx_default = <<>> THEN default_nclx
                       ELSE OverrideNclx(default_nclx, args.nclx_default)
    /\ UNCHANGED <<ipco, associations, needs_rewrite, hasIprp, failed, lastCall, prevCall,
                   calls, read_result, issues, reported, fix_pass, outputs, obu_data,
                   sequence_header, args>>
    /\ UNCHANGED writeVars

NextOptions == ProcessOptionsStep

SpecOptions == InitOptions /\ [][NextOptions]_vars

\* C20. The --nclx-default override of four integers (p, t, m, r) replaces
\* all four defaults: after option processing color_primaries is [p],
\* transfer_characteristics is [t], matrix_coefficients is [m] and
\* full_range_flag is [r].
C20_NclxDefaultOverride ==
    (stage = "options" /\ args.nclx_default # <<>>)
      => /\ default_nclx.color_primaries = <<args.nclx_default[1]>>
         /\ default_nclx.transfer_characteristics = <<args.nclx_default[2]>>
         /\ default_nclx.matrix_coefficients = <<args.nclx_default[3]>>
         /\ default_nclx.full_range_flag = <<args.nclx_default[4]>>

(***************************************************************************)
(* Files as byte sequences.  File position p is element p + 1.             *)
(***************************************************************************)
RECURSIVE Pow256(_)
Pow256(n) == IF n = 0 THEN 1 ELSE 256 * Pow256(n - 1)

\* struct.pack(">B/H/I/Q", value): big-endian, nbytes wide.  The values of
\* the model are below 256^4, so the bytes above the low four are 0.
WriteIntegerOfSize(value, nbytes) ==
    [k \in 1..nbytes |->
        IF nbytes - k >= 4 THEN 0 ELSE (value \div Pow256(nbytes - k)) % 256]

\* struct.unpack of a big-endian unsigned integer.
RECURSIVE UnpackInteger(_)
UnpackInteger(data) ==
    IF data = <<>> THEN 0
    ELSE 256 * UnpackInteger(SubSeq(data, 1, Len(data) - 1)) + data[Len(data)]

\* The four-character codes of the box types the tool names.
TypeFtyp == <<102, 116, 121, 112>>
TypeMeta == <<109, 101, 116, 97>>
TypeIloc == <<105, 108, 111, 99>>
TypeMoov == <<109, 111, 111, 118>>
TypeTrak == <<116, 114, 97, 107>>
TypeMdia == <<109, 100, 105, 97>>
TypeMinf == <<109, 105, 110, 102>>
TypeStbl == <<115, 116, 98, 108>>
TypeStco == <<115, 116, 99, 111>>
TypeMdat == <<109, 100, 97, 116>>
TypeFree == <<102, 114, 101, 101>>
TypeMoof == <<109, 111, 111, 102>>
BrandAvif == <<97, 118, 105, 102>>
BrandMif1 == <<109, 105, 102, 49>>
BrandMiaf == <<109, 105, 97, 102>>

\* decode_data_to_string: trailing NUL characters are stripped.
RECURSIVE DecodeDataToString(_)
DecodeDataToString(data) ==
    IF data # <<>> /\ data[Len(data)] = 0
    THEN DecodeDataToString(SubSeq(data, 1, Len(data) - 1))
    ELSE data

(***************************************************************************)
(* FileReader.  A reader value is [pos, ok, vals]: the file position, ok   *)
(* that is FALSE once an assertion or a short read has ended the run, and  *)
(* vals, the values read since the reader was last cleared.                *)
(***************************************************************************)
ChunkSize == 32768

Reader(pos) == [pos |-> pos, ok |-> TRUE, vals |-> <<>>]

Cleared(r) == [r EXCEPT !.vals = <<>>]

Raised(r) == [r EXCEPT !.ok = FALSE]

\* file.read(nbytes) at pos: what the file still holds, at most nbytes.
FileRead(src, pos, nbytes) ==
    IF pos >= Len(src) \/ nbytes <= 0 THEN <<>>
    ELSE SubSeq(src, pos + 1, IF pos + nbytes <= Len(src) THEN pos + nbytes ELSE Len(src))

\* FileReader.read_data with an end: the bytes read are appended to vals.
ReadData(src, r, nbytes, end) ==
    IF ~r.ok \/ r.pos + nbytes > end THEN Raised(r)
    ELSE [r EXCEPT !.pos = @ + Len(FileRead(src, r.pos, nbytes)),
                   !.vals = Append(@, FileRead(src, r.pos, nbytes))]

\* FileReader.read_integer_of_size: struct.unpack fails on a short read and
\* get_struct_type on a width other than 1, 2, 4, 8.
ReadIntegerOfSize(src, r, end, nbytes) ==
    IF ~r.ok \/ r.pos + nbytes > end \/ nbytes \notin {1, 2, 4, 8}
       \/ Len(FileRead(src, r.pos, nbytes)) # nbytes
    THEN Raised(r)
    ELSE [r EXCEPT !.pos = @ + nbytes,
                   !.vals = Append(@, UnpackInteger(FileRead(src, r.pos, nbytes)))]

\* FileReader.read_integer_array_of_size.
RECURSIVE ReadIntegerArrayOfSize(_, _, _, _, _)
ReadIntegerArrayOfSize(src, r, end, nbytes, n) ==
    IF n <= 0 \/ ~r.ok THEN r
    ELSE ReadIntegerArrayOfSize(src, ReadIntegerOfSize(src, r, end, nbytes), end, nbytes, n - 1)

\* FileReader.read_string with a size.
ReadString(src, r, end, size) ==
    IF ~r.ok \/ r.pos + size > end THEN Raised(r)
    ELSE [r EXCEPT !.pos = @ + Len(FileRead(src, r.pos, size)),
                   !.vals = Append(@, DecodeDataToString(FileRead(src, r.pos, size)))]

\* A field that is read only when present and is 0 otherwise.
ReadOptional(src, r, end, present, nbytes) ==
    IF ~r.ok THEN r
    ELSE IF present THEN ReadIntegerOfSize(src, r, end, nbytes)
    ELSE [r EXCEPT !.vals = Append(@, 0)]

\* FileReader.read_data_from_offset: [ok, data].
ReadDataFromOffset(src, offset, nbytes) ==
    [ok |-> Len(FileRead(src, offset, nbytes)) = nbytes,
     data |-> FileRead(src, offset, nbytes)]

(***************************************************************************)
(* Boxes and their parsing.                                                *)
(***************************************************************************)
NoBody == [kind |-> "none"]

\* Box.__init__.
Box(box_type, size, start) ==
    [type |-> box_type, size |-> size, start |-> start, end |-> start + size,
     has_sub_boxes |-> FALSE, sub_boxes |-> <<>>, header |-> EmptyHeader,
     body |-> NoBody, needs_rewrite |-> FALSE]

\* Box.from_reader, the size field: 1 announces a 64-bit size, 0 gives
\* end - size.
FromReaderLargeSize(src, r, end) ==
    IF r.ok /\ r.vals[1] = 1 THEN ReadIntegerOfSize(src, r, end, 8) ELSE r

FromReaderSize(vals, end) ==
    IF vals[1] = 1 THEN vals[3]
    ELSE IF vals[1] = 0 THEN end - vals[1]
    ELSE vals[1]

FromReaderBox(r, start, end) ==
    IF ~r.ok THEN [r |-> r, box |-> Box(<<>>, 0, start)]
    ELSE [r |-> [r EXCEPT !.ok = FromReaderSize(r.vals, end) >= 8],
          box |-> Box(r.vals[2], FromReaderSize(r.vals, end), start)]

\* Box.from_reader: [r, box].
FromReader(src, r, end) ==
    FromReaderBox(
        FromReaderLargeSize(src,
            ReadString(src, ReadIntegerOfSize(src, Cleared(r), end, 4), end, 4), end),
        r.pos, end)

TypeIprp == <<105, 112, 114, 112>>
TypeIpco == <<105, 112, 99, 111>>
TypeIpma == <<105, 112, 109, 97>>
TypeIinf == <<105, 105, 110, 102>>
TypeIref == <<105, 114, 101, 102>>
TypePitm == <<112, 105, 116, 109>>
TypeStsd == <<115, 116, 115, 100>>
TypeDinf == <<100, 105, 110, 102>>
TypeDref == <<100, 114, 101, 102>>
TypeHdlr == <<104, 100, 108, 114>>
TypeTref == <<116, 114, 101, 102>>
TypeTkhd == <<116, 107, 104, 100>>
TypeInfe == <<105, 110, 102, 101>>
TypeMime == <<109, 105, 109, 101>>
TypeUri == <<117, 114, 105, 32>>
TypeAv01 == <<97, 118, 48, 49>>
TypeUrl == <<117, 114, 108, 32>>

\* BoxRecipe.__init__.
BoxRecipe(full_box, sequence_map, body_parser) ==
    [full_box |-> full_box, sequence_map |-> sequence_map, body_parser |-> body_parser]

\* A default recipe that parses the payload of an unknown box as boxes.
DefaultRecipe_Container == BoxRecipe(FALSE, "MAP_TOP_LEVEL", "none")

\* box_map.get("default", BoxRecipe("Unknown")): no header, no children, no
\* body parser.
DefaultRecipe == BoxRecipe(FALSE, "none", "none")

\* MAP_TOP_LEVEL and the maps below it; box_map.get(type, default recipe).
\* The property container (MAP_IPCO_BOX) is the ipco variable's part.
RecipeFor(box_map, t) ==
    CASE box_map = "MAP_TOP_LEVEL" /\ t = TypeFtyp -> BoxRecipe(FALSE, "none", "parse_ftyp_box")
      [] box_map = "MAP_TOP_LEVEL" /\ t = TypeMeta -> BoxRecipe(TRUE, "MAP_META_BOX", "none")
      [] box_map = "MAP_TOP_LEVEL" /\ t = TypeMoov -> BoxRecipe(FALSE, "MAP_MOOV_BOX", "none")
      [] box_map = "MAP_TOP_LEVEL" /\ t = TypeMoof -> BoxRecipe(FALSE, "none", "parse_unsupported_box")
      [] box_map = "MAP_META_BOX" /\ t = TypeIprp -> BoxRecipe(FALSE, "MAP_IPRP_BOX", "none")
      [] box_map = "MAP_META_BOX" /\ t = TypeIloc -> BoxRecipe(TRUE, "none", "parse_iloc_box")
      [] box_map = "MAP_META_BOX" /\ t = TypeIinf -> BoxRecipe(TRUE, "none", "parse_iinf_box")
      [] box_map = "MAP_META_BOX" /\ t = TypeIref -> BoxRecipe(TRUE, "none", "parse_iref_box")
      [] box_map = "MAP_META_BOX" /\ t = TypePitm -> BoxRecipe(TRUE, "none", "parse_pitm_box")
      [] box_map = "MAP_IPRP_BOX" /\ t = TypeIpco -> BoxRecipe(FALSE, "MAP_IPCO_BOX", "none")
      [] box_map = "MAP_IPRP_BOX" /\ t = TypeIpma -> BoxRecipe(TRUE, "none", "parse_ipma_box")
      [] box_map = "MAP_MOOV_BOX" /\ t = TypeTrak -> BoxRecipe(FALSE, "MAP_TRAK_BOX", "none")
      [] box_map = "MAP_TRAK_BOX" /\ t = TypeMdia -> BoxRecipe(FALSE, "MAP_MDIA_BOX", "none")
      [] box_map = "MAP_TRAK_BOX" /\ t = TypeTref -> BoxRecipe(FALSE, "EMPTY", "none")
      [] box_map = "MAP_TRAK_BOX" /\ t = TypeTkhd -> BoxRecipe(TRUE, "none", "parse_tkhd_box")
      [] box_map = "MAP_MDIA_BOX" /\ t = TypeHdlr -> BoxRecipe(TRUE, "none", "parse_hdlr_box")
      [] box_map = "MAP_MDIA_BOX" /\ t = TypeMinf -> BoxRecipe(FALSE, "MAP_MINF_BOX", "none")
      [] box_map = "MAP_MINF_BOX" /\ t = TypeDinf -> BoxRecipe(FALSE, "MAP_DINF_BOX", "none")
      [] box_map = "MAP_MINF_BOX" /\ t = TypeStbl -> BoxRecipe(FALSE, "MAP_STBL_BOX", "none")
      [] box_map = "MAP_STBL_BOX" /\ t = TypeStco -> BoxRecipe(TRUE, "none", "parse_stco_box")
      [] box_map = "MAP_STBL_BOX" /\ t = TypeStsd -> BoxRecipe(TRUE, "none", "parse_stsd_box")
      [] box_map = "MAP_DINF_BOX" /\ t = TypeDref -> BoxRecipe(TRUE, "none", "parse_dref_box")
      [] box_map = "MAP_IINF_BOX" /\ t = TypeInfe -> BoxRecipe(TRUE, "none", "parse_infe_box")
      [] box_map = "MAP_STSD_BOX" /\ t = TypeAv01 -> BoxRecipe(FALSE, "none", "_parse_av01_box")
      [] box_map = "MAP_DREF_BOX" /\ t = TypeUrl -> BoxRecipe(TRUE, "none", "_parse_dref_url")
      [] box_map = "MAP_DREF_BOX" /\ t # TypeUrl
            -> BoxRecipe(TRUE, "none", "parse_unsupported_box")
      [] OTHER -> DefaultRecipe

\* parse_ftyp_box: [r, body]; vals are the major brand, the version and the
\* compatible brands.
RECURSIVE ReadBrands(_, _, _, _)
ReadBrands(src, r, end, num_brands) ==
    IF num_brands <= 0 \/ ~r.ok THEN r
    ELSE ReadBrands(src, ReadString(src, r, end, 4), end, num_brands - 1)

FtypCompatible(src, r, end) ==
    IF ~r.ok THEN r ELSE ReadBrands(src, r, end, (end - r.pos) \div 4)

FtypBody(r) ==
    IF ~r.ok THEN [r |-> r, body |-> NoBody]
    ELSE [r |-> r,
          body |-> [kind |-> "ftyp", major |-> r.vals[1], version |-> r.vals[2],
                    compatible |-> SubSeq(r.vals, 3, Len(r.vals))]]

ParseFtypBox(src, r, box) ==
    FtypBody(FtypCompatible(src,
        ReadIntegerOfSize(src, ReadString(src, Cleared(r), box.end, 4), box.end, 4),
        box.end))

\* parse_stco_box: [r, body]; vals are entry_count and the entries.
StcoEntries(src, r, end) ==
    IF ~r.ok THEN r ELSE ReadIntegerArrayOfSize(src, r, end, 4, r.vals[1])

StcoBody(r) ==
    IF ~r.ok THEN [r |-> r, body |-> NoBody]
    ELSE [r |-> r, body |-> [kind |-> "stco", entries |-> SubSeq(r.vals, 2, Len(r.vals))]]

ParseStcoBox(src, r, box) ==
    StcoBody(StcoEntries(src, ReadIntegerOfSize(src, Cleared(r), box.end, 4), box.end))

\* parse_iloc_box, the extents of one item: [r, value].  vals of one extent
\* are item_reference_index, offset and length.
RECURSIVE ReadIlocExtents(_, _, _, _, _, _, _)
IlocExtentFields(src, r, box, sizes) ==
    ReadIntegerOfSize(src,
        ReadOptional(src,
            ReadOptional(src, Cleared(r), box.end,
                         box.header[1] \in {1, 2} /\ sizes.index_size > 0, sizes.index_size),
            box.end, sizes.offset_size > 0, sizes.offset_size),
        box.end, sizes.length_size)

IlocExtent(vals, base_offset) ==
    [item_reference_index |-> vals[1], offset |-> vals[2], length |-> vals[3],
     calculated_total_offset |-> base_offset + vals[2]]

IlocExtentRead(src, r, box, sizes, base_offset, extent_count, acc) ==
    IF ~r.ok THEN [r |-> r, value |-> acc]
    ELSE ReadIlocExtents(src, r, box, sizes, base_offset, extent_count - 1,
                         Append(acc, IlocExtent(r.vals, base_offset)))

ReadIlocExtents(src, r, box, sizes, base_offset, extent_count, acc) ==
    IF extent_count <= 0 \/ ~r.ok THEN [r |-> r, value |-> acc]
    ELSE IlocExtentRead(src, IlocExtentFields(src, r, box, sizes), box, sizes,
                        base_offset, extent_count, acc)

\* parse_iloc_box, the items: [r, value].  vals of one item are item_ID,
\* reserved0, construction_method, data_reference_index, base_offset and
\* extent_count.
RECURSIVE ReadIlocItems(_, _, _, _, _, _)
IlocDataReferenceIndex(r) ==
    IF r.ok /\ r.vals[Len(r.vals)] # 0 THEN Raised(r) ELSE r

IlocItemFields(src, r, box, sizes) ==
    ReadIntegerOfSize(src,
        ReadOptional(src,
            IlocDataReferenceIndex(
                ReadIntegerOfSize(src,
                    ReadOptional(src,
                        ReadOptional(src,
                            ReadIntegerOfSize(src, Cleared(r), box.end,
                                              IF box.header[1] < 2 THEN 2 ELSE 4),
                            box.end, box.header[1] \in {1, 2}, 1),
                        box.end, box.header[1] \in {1, 2}, 1),
                    box.end, 2)),
            box.end, sizes.base_offset_size > 0, sizes.base_offset_size),
        box.end, 2)

IlocItem(vals, extents) ==
    [item_ID |-> vals[1], construction_method |-> vals[3], base_offset |-> vals[5],
     extents |-> extents]

IlocItemRead(src, vals, extents, box, sizes, item_count, acc) ==
    ReadIlocItems(src, extents.r, box, sizes, item_count - 1,
                  Append(acc, IlocItem(vals, extents.value)))

IlocItemExtents(src, r, box, sizes, item_count, acc) ==
    IF ~r.ok THEN [r |-> r, value |-> acc]
    ELSE IlocItemRead(src, r.vals,
                      ReadIlocExtents(src, r, box, sizes, r.vals[5], r.vals[6], <<>>),
                      box, sizes, item_count, acc)

ReadIlocItems(src, r, box, sizes, item_count, acc) ==
    IF item_count <= 0 \/ ~r.ok THEN [r |-> r, value |-> acc]
    ELSE IlocItemExtents(src, IlocItemFields(src, r, box, sizes), box, sizes,
                         item_count, acc)

\* parse_iloc_box: [r, body]; vals of the box are the two size bytes and
\* item_count.  The low nibble of the second byte is kept as index_size only
\* for version > 0 (has_index_size).
IlocVersion(r, box) ==
    IF 0 <= box.header[1] /\ box.header[1] <= 2 THEN r ELSE Raised(r)

IlocSizes(vals, version) ==
    [offset_size |-> vals[1] \div 16, length_size |-> vals[1] % 16,
     base_offset_size |-> vals[2] \div 16, has_index_size |-> version > 0,
     index_size |-> vals[2] % 16]

IlocBody(sizes, items) ==
    [r |-> items.r,
     body |-> [kind |-> "iloc", offset_size |-> sizes.offset_size,
               length_size |-> sizes.length_size,
               base_offset_size |-> sizes.base_offset_size,
               has_index_size |-> sizes.has_index_size,
               index_size |-> sizes.index_size,
               items |-> items.value]]

IlocItems(src, r, box) ==
    IF ~r.ok THEN [r |-> r, body |-> NoBody]
    ELSE IlocBody(IlocSizes(r.vals, box.header[1]),
                  ReadIlocItems(src, r, box, IlocSizes(r.vals, box.header[1]),
                                r.vals[3], <<>>))

ParseIlocBox(src, r, box) ==
    IlocItems(src,
        ReadIntegerOfSize(src,
            ReadIntegerOfSize(src,
                ReadIntegerOfSize(src, IlocVersion(Cleared(r), box), box.end, 1),
                box.end, 1),
            box.end, IF box.header[1] < 2 THEN 2 ELSE 4),
        box)

\* parse_pitm_box: [r, body].
PitmBody(r) ==
    IF ~r.ok THEN [r |-> r, body |-> NoBody]
    ELSE [r |-> r, body |-> [kind |-> "pitm", item_id |-> r.vals[1]]]

ParsePitmBox(src, r, box) ==
    PitmBody(ReadIntegerOfSize(src, Cleared(r), box.end,
                               IF box.header[1] = 0 THEN 2 ELSE 4))

\* FileReader.read_string without a size: the bytes up to a NUL or up to end;
\* file.read(1) at the end of the file gives b'' and byte[0] fails.
NulAt(src, pos, end) ==
    {i \in (pos + 1)..(IF end < Len(src) THEN end ELSE Len(src)) : src[i] = 0}

ReadCString(src, r, end) ==
    IF ~r.ok THEN r
    ELSE IF ~(r.pos < end) THEN [r EXCEPT !.vals = Append(@, <<>>)]
    ELSE IF NulAt(src, r.pos, end) # {}
    THEN [r EXCEPT !.pos = Min(NulAt(src, r.pos, end)),
                   !.vals = Append(@, DecodeDataToString(
                                SubSeq(src, r.pos + 1, Min(NulAt(src, r.pos, end)) - 1)))]
    ELSE IF end > Len(src) THEN Raised(r)
    ELSE [r EXCEPT !.pos = end,
                   !.vals = Append(@, DecodeDataToString(SubSeq(src, r.pos + 1, end)))]

\* parse_infe_box: [r, body]; vals are item_id, item_protection_index,
\* item_type, name and the strings of a mime or uri item.
InfeVersion(r, box) ==
    IF 2 <= box.header[1] /\ box.header[1] <= 3 THEN r ELSE Raised(r)

InfeFields(src, r, box) ==
    ReadCString(src,
        ReadString(src,
            ReadIntegerOfSize(src,
                ReadIntegerOfSize(src, InfeVersion(Cleared(r), box), box.end,
                                  IF box.header[1] = 2 THEN 2 ELSE 4),
                box.end, 2),
            box.end, 4),
        box.end)

InfeStrings(src, r, box) ==
    IF ~r.ok THEN r
    ELSE IF r.vals[3] = TypeMime THEN ReadCString(src, ReadCString(src, r, box.end), box.end)
    ELSE IF r.vals[3] = TypeUri THEN ReadCString(src, r, box.end)
    ELSE r

InfeBody(r) ==
    IF ~r.ok THEN [r |-> r, body |-> NoBody]
    ELSE [r |-> r,
          body |-> [kind |-> "infe", item_id |-> r.vals[1],
                    item_protection_index |-> r.vals[2], item_type |-> r.vals[3],
                    name |-> r.vals[4], strings |-> SubSeq(r.vals, 5, Len(r.vals))]]

ParseInfeBox(src, r, box) == InfeBody(InfeStrings(src, InfeFields(src, r, box), box))

RECURSIVE ParseBoxSequence(_, _, _, _, _)

\* parse_box_sequence, the check of expected_box_count after the loop: the
\* assertion is made when the count differs and asserts that it differs.
ExpectedBoxCount(parsed, expected_box_count) ==
    IF parsed.r.ok /\ expected_box_count # Len(parsed.boxes)
                   /\ ~(expected_box_count # Len(parsed.boxes))
    THEN [parsed EXCEPT !.r = Raised(@)]
    ELSE parsed

\* A body parser that reads the children of its box with an expected
\* count (the value read last): [r, body, sub_boxes]; the body is empty.
CountedBody(parsed) == [r |-> parsed.r, body |-> NoBody, sub_boxes |-> parsed.boxes]

CountedSubBoxes(src, r, box, box_map) ==
    IF ~r.ok THEN [r |-> r, body |-> NoBody, sub_boxes |-> <<>>]
    ELSE CountedBody(ExpectedBoxCount(
             ParseBoxSequence(src, r, box.end, box_map, <<>>), r.vals[1]))

\* parse_iinf_box.
IinfVersion(r, box) ==
    IF 0 <= box.header[1] /\ box.header[1] <= 1 THEN r ELSE Raised(r)

ParseIinfBox(src, r, box) ==
    CountedSubBoxes(src,
        ReadIntegerOfSize(src, IinfVersion(Cleared(r), box), box.end,
                          IF box.header[1] # 0 THEN 4 ELSE 2),
        box, "MAP_IINF_BOX")

\* parse_stsd_box and its _parse_av01_box.
ParseStsdBox(src, r, box) ==
    CountedSubBoxes(src, ReadIntegerOfSize(src, Cleared(r), box.end, 4), box,
                    "MAP_STSD_BOX")

Av01Body(r, sub) ==
    IF ~r.ok THEN [r |-> r, body |-> NoBody, sub_boxes |-> <<>>]
    ELSE [r |-> sub.r,
          body |-> [kind |-> "av01", sampleentry |-> r.vals[1],
                    visualsampleentry |-> r.vals[2]],
          sub_boxes |-> sub.boxes]

Av01SubBoxes(src, r, box) ==
    Av01Body(r, ParseBoxSequence(src, r, box.end, "EMPTY", <<>>))

ParseAv01Box(src, r, box) ==
    Av01SubBoxes(src, ReadData(src, ReadData(src, Cleared(r), 8, box.end), 70, box.end),
                 box)

\* parse_dref_box and its _parse_dref_url.
ParseDrefBox(src, r, box) ==
    CountedSubBoxes(src, ReadIntegerOfSize(src, Cleared(r), box.end, 4), box,
                    "MAP_DREF_BOX")

DrefUrlBody(r, box) ==
    IF ~r.ok \/ ~(box.header[2] = 1 /\ r.vals[1] = <<>>)
    THEN [r |-> Raised(r), body |-> NoBody]
    ELSE [r |-> r, body |-> [kind |-> "url", url |-> r.vals[1]]]

ParseDrefUrl(src, r, box) == DrefUrlBody(ReadCString(src, Cleared(r), box.end), box)

\* The body parsers of the boxes above; a parser outside this list leaves the
\* body to be skipped by parse_box_sequence.
ParseBody(body_parser, src, r, box) ==
    CASE body_parser = "parse_ftyp_box" -> ParseFtypBox(src, r, box)
      [] body_parser = "parse_stco_box" -> ParseStcoBox(src, r, box)
      [] body_parser = "parse_iloc_box" -> ParseIlocBox(src, r, box)
      [] body_parser = "parse_pitm_box" -> ParsePitmBox(src, r, box)
      [] body_parser = "parse_iinf_box" -> ParseIinfBox(src, r, box)
      [] body_parser = "parse_infe_box" -> ParseInfeBox(src, r, box)
      [] body_parser = "parse_stsd_box" -> ParseStsdBox(src, r, box)
      [] body_parser = "_parse_av01_box" -> ParseAv01Box(src, r, box)
      [] body_parser = "parse_dref_box" -> ParseDrefBox(src, r, box)
      [] body_parser = "_parse_dref_url" -> ParseDrefUrl(src, r, box)
      [] body_parser = "parse_unsupported_box" -> [r |-> Raised(r), body |-> NoBody]
      [] OTHER -> [r |-> r, body |-> NoBody]

\* BoxRecipe.parse and parse_box_sequence: [r, boxes].
RecipeHeader(recipe, src, r, dst_box) ==
    IF recipe.full_box THEN ReadIntegerArrayOfSize(src, Cleared(r), dst_box.end, 1, 4)
    ELSE Cleared(r)

RecipeHeaderBox(recipe, r, dst_box) ==
    IF recipe.full_box /\ r.ok
    THEN [dst_box EXCEPT !.header =
              FullHeader(r.vals[1], (r.vals[2] * 256 + r.vals[3]) * 256 + r.vals[4])]
    ELSE dst_box

RecipeSubBoxes(sub, box) ==
    [r |-> sub.r, box |-> [box EXCEPT !.has_sub_boxes = TRUE, !.sub_boxes = sub.boxes]]

RecipeBodyOf(parsed, box) ==
    IF "sub_boxes" \in DOMAIN parsed
    THEN [r |-> parsed.r,
          box |-> [box EXCEPT !.body = parsed.body, !.has_sub_boxes = TRUE,
                              !.sub_boxes = parsed.sub_boxes]]
    ELSE [r |-> parsed.r, box |-> [box EXCEPT !.body = parsed.body]]

RecipeBody(recipe, src, r, box) ==
    IF ~r.ok THEN [r |-> r, box |-> box]
    ELSE IF recipe.sequence_map # "none"
    THEN RecipeSubBoxes(ParseBoxSequence(src, r, box.end, recipe.sequence_map, <<>>), box)
    ELSE IF recipe.body_parser # "none"
    THEN RecipeBodyOf(ParseBody(recipe.body_parser, src, r, box), box)
    ELSE [r |-> [r EXCEPT !.pos = box.end], box |-> box]

RecipeParseFrom(recipe, src, r, dst_box) ==
    RecipeBody(recipe, src, r, RecipeHeaderBox(recipe, r, dst_box))

RecipeParse(recipe, src, r, dst_box) ==
    RecipeParseFrom(recipe, src, RecipeHeader(recipe, src, r, dst_box), dst_box)

SequenceBoxParsed(src, parsed, end, box_map, boxes) ==
    IF ~parsed.r.ok \/ ~(parsed.r.pos <= parsed.box.end)
    THEN [r |-> Raised(parsed.r), boxes |-> boxes]
    ELSE ParseBoxSequence(src, [parsed.r EXCEPT !.pos = parsed.box.end], end, box_map,
                          Append(boxes, parsed.box))

SequenceBoxMade(src, made, end, box_map, boxes) ==
    IF ~made.r.ok THEN [r |-> made.r, boxes |-> boxes]
    ELSE SequenceBoxParsed(src,
             RecipeParse(RecipeFor(box_map, made.box.type), src, made.r, made.box),
             end, box_map, boxes)

ParseBoxSequence(src, r, end, box_map, boxes) ==
    IF ~r.ok \/ ~(r.pos <= end - 8) THEN [r |-> r, boxes |-> boxes]
    ELSE SequenceBoxMade(src, FromReader(src, r, end), end, box_map, boxes)

\* ParsedFile.__init__: [ok, boxes].
ParsedFileBoxes(parsed) == [ok |-> parsed.r.ok, boxes |-> parsed.boxes]

ParsedFileCheck(src, r) ==
    IF ~(Len(src) > 8) \/ ~r.ok THEN [ok |-> FALSE, boxes |-> <<>>]
    ELSE IF ~(r.vals[1] > 8) \/ r.vals[2] # TypeFtyp THEN [ok |-> FALSE, boxes |-> <<>>]
    ELSE ParsedFileBoxes(ParseBoxSequence(src, Reader(0), Len(src), "MAP_TOP_LEVEL", <<>>))

ParsedFile(src) ==
    ParsedFileCheck(src,
        ReadString(src, ReadIntegerOfSize(src, Reader(0), Len(src), 4), Len(src), 4))

(***************************************************************************)
(* AVIFWriter: the box writers.  A writer returns [ok, data, offsets]; a   *)
(* body under construction is [ok, data, offsets, base], base being the    *)
(* base placeholder of the iloc item in hand.                              *)
(***************************************************************************)
\* PlaceholderFileOffset.__init__ ; dependents holds the values of the
\* placeholders created with this one as base.
PlaceholderFileOffset(file_pos, size, value) ==
    [file_pos |-> file_pos, size |-> size, value |-> value, dependents |-> <<>>]

\* PlaceholderFileOffset.add_dependent.
AddDependent(base, dependent_value) ==
    [base EXCEPT !.dependents = Append(base.dependents, dependent_value)]

\* PlaceholderFileOffset.get_offset_list.
GetOffsetList(placeholder) ==
    IF Len(placeholder.dependents) > 0
    THEN [k \in 1..Len(placeholder.dependents) |->
              placeholder.value + placeholder.dependents[k]]
    ELSE <<placeholder.value>>

NoPlaceholder == [file_pos |-> -1, size |-> 0, value |-> 0, dependents |-> <<>>]

NewBody == [ok |-> TRUE, data |-> <<>>, offsets |-> <<>>, base |-> NoPlaceholder]

\* body_data += write_integer_of_size(value, nbytes); get_struct_type
\* refuses a width other than 1, 2, 4, 8.
Pack(st, value, nbytes) ==
    IF nbytes \notin {1, 2, 4, 8} THEN [st EXCEPT !.ok = FALSE]
    ELSE [st EXCEPT !.data = @ \o WriteIntegerOfSize(value, nbytes)]

PackIf(st, present, value, nbytes) == IF present THEN Pack(st, value, nbytes) ELSE st

PackBytes(st, data) == [st EXCEPT !.data = @ \o data]

\* write_box_header whose size field leaves out the version and flags of
\* a full box.
WriteBoxHeader_PlainSize(box, body_size) ==
    [ok |-> Len(box.type) = 4,
     data |-> WriteIntegerOfSize(4 + Len(box.type) + body_size, 4)
                \o box.type
                \o (IF Len(box.header) > 0
                    THEN <<box.header[1] % 256>>
                           \o SubSeq(WriteIntegerOfSize(box.header[2], 4), 2, 4)
                    ELSE <<>>)]

\* Box.write_box_header: [ok, data].  total_size <= 0xFFFFFFFF holds for
\* every size the model can hold.
WriteBoxHeader(box, body_size) ==
    [ok |-> Len(box.type) = 4,
     data |-> WriteIntegerOfSize(
                  4 + Len(box.type) + (IF Len(box.header) = 0 THEN 0 ELSE 4) + body_size, 4)
                \o box.type
                \o (IF Len(box.header) > 0
                    THEN <<box.header[1] % 256>>
                           \o SubSeq(WriteIntegerOfSize(box.header[2], 4), 2, 4)
                    ELSE <<>>)]

\* box.write_box_header(len(body_data)) + body_data, placeholder_offsets.
WithHeader(box, st) ==
    [ok |-> st.ok /\ WriteBoxHeader(box, Len(st.data)).ok,
     data |-> WriteBoxHeader(box, Len(st.data)).data \o st.data,
     offsets |-> st.offsets]

RECURSIVE Concat(_)
Concat(seqs) == IF seqs = <<>> THEN <<>> ELSE Head(seqs) \o Concat(Tail(seqs))

\* AVIFWriter._write_ftyp_box.
WriteFtypBox(box, current_offset) ==
    WithHeader(box,
        PackBytes(Pack(PackBytes(NewBody, box.body.major), box.body.version, 4),
                  Concat(box.body.compatible)))

\* AVIFWriter._write_stco_box.
RECURSIVE WriteStcoEntries(_, _, _)
StcoPlaceholder(st, at, entry) ==
    [st EXCEPT !.offsets = Append(@, PlaceholderFileOffset(at + Len(st.data), 4, entry))]

WriteStcoEntries(entries, at, st) ==
    IF entries = <<>> THEN st
    ELSE WriteStcoEntries(Tail(entries), at,
                          Pack(StcoPlaceholder(st, at, Head(entries)), Head(entries), 4))

WriteStcoBox(box, current_offset) ==
    WithHeader(box,
        WriteStcoEntries(box.body.entries, current_offset + 12,
                         Pack(NewBody, Len(box.body.entries), 4)))

\* AVIFWriter._write_iloc_box: box.body.get("index_size", 0).
IlocIndexSize(box) == IF box.body.has_index_size THEN box.body.index_size ELSE 0

\* AVIFWriter._write_iloc_box, the placeholder of one extent: created with
\* the item's base placeholder as base, listed only without a base offset.
IlocExtentPlaceholder(st, box, item, extent, at) ==
    IF box.body.offset_size > 0 /\ item.construction_method = 0
    THEN [st EXCEPT
            !.base = IF @ # NoPlaceholder THEN AddDependent(@, extent.offset) ELSE @,
            !.offsets = IF box.body.base_offset_size = 0
                        THEN Append(@, PlaceholderFileOffset(at + Len(st.data),
                                                             box.body.offset_size,
                                                             extent.offset))
                        ELSE @]
    ELSE st

\* AVIFWriter._write_iloc_box, the extents of one item.
RECURSIVE WriteIlocExtents(_, _, _, _, _)
WriteIlocExtent(box, item, extent, at, st) ==
    Pack(
        PackIf(
            IlocExtentPlaceholder(
                PackIf(st, IlocIndexSize(box) > 0, extent.item_reference_index,
                       IlocIndexSize(box)),
                box, item, extent, at),
            box.body.offset_size > 0, extent.offset, box.body.offset_size),
        extent.length, box.body.length_size)

WriteIlocExtents(box, item, extents, at, st) ==
    IF extents = <<>> THEN st
    ELSE WriteIlocExtents(box, item, Tail(extents), at,
                          WriteIlocExtent(box, item, Head(extents), at, st))

\* AVIFWriter._write_iloc_box, one item up to its base offset.
IlocItemHead(st, box, item) ==
    Pack(
        PackBytes(Pack(st, item.item_ID, IF box.header[1] < 2 THEN 2 ELSE 4),
                  IF box.header[1] \in {1, 2}
                  THEN <<0, item.construction_method % 256>> ELSE <<>>),
        0, 2)

IlocBasePlaceholder(st, box, item, at) ==
    [st EXCEPT !.base =
        IF box.body.base_offset_size > 0 /\ item.construction_method = 0
        THEN PlaceholderFileOffset(at + Len(st.data), box.body.base_offset_size,
                                   item.base_offset)
        ELSE NoPlaceholder]

IlocItemBase(st, box, item, at) ==
    PackIf(IlocBasePlaceholder(st, box, item, at), box.body.base_offset_size > 0,
           item.base_offset, box.body.base_offset_size)

\* The base placeholder enters the list with the dependents its extents
\* have added to it.
IlocItemDone(st) ==
    [st EXCEPT !.offsets = IF st.base # NoPlaceholder THEN Append(@, st.base) ELSE @,
               !.base = NoPlaceholder]

\* AVIFWriter._write_iloc_box, the items.
RECURSIVE WriteIlocItems(_, _, _, _)
WriteIlocItem(box, item, at, st) ==
    IlocItemDone(
        WriteIlocExtents(box, item, item.extents, at,
            Pack(IlocItemBase(IlocItemHead(st, box, item), box, item, at),
                 Len(item.extents), 2)))

WriteIlocItems(box, items, at, st) ==
    IF items = <<>> THEN st
    ELSE WriteIlocItems(box, Tail(items), at, WriteIlocItem(box, Head(items), at, st))

\* AVIFWriter._write_iloc_box.
WriteIlocBox(box, current_offset) ==
    WithHeader(box,
        WriteIlocItems(box, box.body.items, current_offset + 12,
            Pack(PackBytes(NewBody,
                           <<(box.body.offset_size * 16 + box.body.length_size) % 256,
                             (box.body.base_offset_size * 16 + IlocIndexSize(box)) % 256>>),
                 Len(box.body.items), IF box.header[1] < 2 THEN 2 ELSE 4)))

\* AVIFWriter.box_writer_map, for the box types of the files below.
GenericContainerTypes ==
    {TypeIpco, TypeIprp, TypeMeta, TypeMoov, TypeTrak, TypeMdia, TypeMinf, TypeStbl}

\* AVIFWriter._write_box_sequence and _write_generic_container_box, with
\* the dispatch through box_writer_map.
RECURSIVE WriteBoxSequence(_, _, _, _)
\* _write_generic_container_box that counts 8 bytes of header for a full
\* box as well.
WriteGenericContainerBox_PlainHeader(src, box, current_offset) ==
    WithHeader(box,
        WriteBoxSequence(src, IF box.has_sub_boxes THEN box.sub_boxes ELSE <<>>,
                         current_offset + 8, NewBody))

WriteGenericContainerBox(src, box, current_offset) ==
    WithHeader(box,
        WriteBoxSequence(src, IF box.has_sub_boxes THEN box.sub_boxes ELSE <<>>,
                         current_offset + 8 + (IF Len(box.header) > 0 THEN 4 ELSE 0),
                         NewBody))

WriteBox(src, box, current_offset) ==
    CASE box.type = TypeFtyp -> WriteFtypBox(box, current_offset)
      [] box.type = TypeIloc -> WriteIlocBox(box, current_offset)
      [] box.type = TypeStco -> WriteStcoBox(box, current_offset)
      [] box.type \in GenericContainerTypes -> WriteGenericContainerBox(src, box, current_offset)
      [] OTHER -> [ok |-> FALSE, data |-> <<>>, offsets |-> <<>>]

SubBoxCopied(acc, copied) ==
    [acc EXCEPT !.ok = copied.ok, !.data = @ \o copied.data]

SubBoxWritten(acc, written) ==
    [acc EXCEPT !.ok = written.ok, !.data = @ \o written.data,
                !.offsets = @ \o written.offsets]

WriteBoxSequence(src, boxes, current_offset, acc) ==
    IF boxes = <<>> \/ ~acc.ok THEN acc
    ELSE WriteBoxSequence(src, Tail(boxes), current_offset,
             IF ~Head(boxes).needs_rewrite
             THEN SubBoxCopied(acc, ReadDataFromOffset(src, Head(boxes).start,
                                                       Head(boxes).size))
             ELSE SubBoxWritten(acc, WriteBox(src, Head(boxes),
                                              current_offset + Len(acc.data))))

(***************************************************************************)
(* The parsed box tree: paths, dirty marking, the offset boxes.            *)
(***************************************************************************)
\* Box.mark_for_rewrite for the box at `path` (child indices from the top
\* level): the box and every box above it.
RECURSIVE MarkBoxForRewrite(_, _)
MarkBoxForRewrite(boxes, path) ==
    IF path = <<>> THEN boxes
    ELSE [boxes EXCEPT ![Head(path)] =
             [@ EXCEPT !.needs_rewrite = TRUE,
                       !.sub_boxes = MarkBoxForRewrite(@, Tail(path))]]

\* ParsedFile.get_box_from_hierarchy: the path of the box, <<>> for None.
RECURSIVE GetBoxFromHierarchy(_, _)
GetBoxFromHierarchy(box_hierarchy, box_array) ==
    LET found == {i \in 1..Len(box_array) : box_array[i].type = Head(box_hierarchy)}
        i == Min(found)
        below == GetBoxFromHierarchy(Tail(box_hierarchy), box_array[i].sub_boxes)
    IN IF found = {} THEN <<>>
       ELSE IF Len(box_hierarchy) = 1 THEN <<i>>
       ELSE IF below = <<>> THEN <<>> ELSE <<i>> \o below

\* ParsedFile.mark_offset_boxes_for_rewrite, the stco of the traks from
\* index k on.
RECURSIVE MarkStcoBoxes(_, _, _)
MarkStcoBoxes(boxes, moov, k) ==
    IF k > Len(boxes[moov].sub_boxes) THEN boxes
    ELSE LET trak == boxes[moov].sub_boxes[k]
             stco == GetBoxFromHierarchy(<<TypeMdia, TypeMinf, TypeStbl, TypeStco>>,
                                         trak.sub_boxes)
         IN IF trak.type # TypeTrak \/ stco = <<>>
            THEN MarkStcoBoxes(boxes, moov, k + 1)
            ELSE MarkStcoBoxes(MarkBoxForRewrite(boxes, <<moov, k>> \o stco), moov, k + 1)

\* ParsedFile.mark_offset_boxes_for_rewrite that marks the iloc box and
\* leaves the stco boxes as they are.
MarkOffsetBoxesForRewrite_IlocOnly(boxes) ==
    IF GetBoxFromHierarchy(<<TypeMeta, TypeIloc>>, boxes) # <<>>
    THEN MarkBoxForRewrite(boxes, GetBoxFromHierarchy(<<TypeMeta, TypeIloc>>, boxes))
    ELSE boxes

\* ParsedFile.mark_offset_boxes_for_rewrite.
MarkOffsetBoxesForRewrite(boxes) ==
    LET iloc == GetBoxFromHierarchy(<<TypeMeta, TypeIloc>>, boxes)
        boxes1 == IF iloc # <<>> THEN MarkBoxForRewrite(boxes, iloc) ELSE boxes
        moov_box == GetBoxFromHierarchy(<<TypeMoov>>, boxes1)
    IN IF moov_box # <<>> /\ boxes1[moov_box[1]].has_sub_boxes
       THEN MarkStcoBoxes(boxes1, moov_box[1], 1)
       ELSE boxes1

\* ParsedFile.boxes_have_changed.
BoxesHaveChanged(boxes) == \E i \in 1..Len(boxes) : boxes[i].needs_rewrite

(***************************************************************************)
(* The input files: ISOBMFF byte strings as Box.from_reader and the body   *)
(* parsers read them.                                                      *)
(***************************************************************************)
MdatPayload == 3
TrailingBytes == 3
MissingBytes == 2

BrandMA1B == <<77, 65, 49, 66>>

\* size(4) type(4) payload, and the same with version(1) flags(3).
EncBox(t, payload) == WriteIntegerOfSize(8 + Len(payload), 4) \o t \o payload
EncFullBox(t, version, flags, payload) ==
    WriteIntegerOfSize(12 + Len(payload), 4) \o t \o <<version>>
        \o SubSeq(WriteIntegerOfSize(flags, 4), 2, 4) \o payload

EncFtyp == EncBox(TypeFtyp, BrandAvif \o WriteIntegerOfSize(0, 4) \o BrandAvif \o BrandMA1B)

\* An iloc of version 0 with 4-byte offsets and lengths and one item.
EncIloc(base_offset_size, base_offset, extent_offsets) ==
    EncFullBox(TypeIloc, 0, 0,
        <<4 * 16 + 4, base_offset_size * 16>> \o WriteIntegerOfSize(1, 2)
            \o WriteIntegerOfSize(1, 2) \o WriteIntegerOfSize(0, 2)
            \o (IF base_offset_size > 0
                THEN WriteIntegerOfSize(base_offset, base_offset_size) ELSE <<>>)
            \o WriteIntegerOfSize(Len(extent_offsets), 2)
            \o Concat([k \in 1..Len(extent_offsets) |->
                          WriteIntegerOfSize(extent_offsets[k], 4)
                              \o WriteIntegerOfSize(1, 4)]))

EncPitm == EncFullBox(TypePitm, 0, 0, WriteIntegerOfSize(1, 2))

EncMeta(iloc) == EncFullBox(TypeMeta, 0, 0, EncPitm \o iloc)

EncStco(entries) ==
    EncFullBox(TypeStco, 0, 0,
        WriteIntegerOfSize(Len(entries), 4)
            \o Concat([k \in 1..Len(entries) |-> WriteIntegerOfSize(entries[k], 4)]))

EncMoov(stco) ==
    EncBox(TypeMoov, EncBox(TypeTrak, EncBox(TypeMdia, EncBox(TypeMinf,
        EncBox(TypeStbl, stco)))))

EncMdat(k) == EncBox(TypeMdat, [i \in 1..MdatPayload |-> 16 * k + i])

EncFree == EncBox(TypeFree, <<>>)

\* The top-level layouts.
Layouts ==
    {<<"ftyp", "meta", "mdat">>,
     <<"ftyp", "mdat", "meta">>,
     <<"ftyp", "meta", "mdat", "mdat">>,
     <<"ftyp", "moov", "mdat">>,
     <<"ftyp", "mdat", "free">>,
     <<"ftyp", "meta", "free">>}

\* What the one iloc item refers to: the width of base_offset, where the
\* base points and where each extent points ("m1", "m2": the payload of
\* the first, second mdat; "ftyp": the payload of the ftyp box; "none":
\* file offset 0).
IlocChoices ==
    {[bos |-> 0, base |-> "none", extents |-> <<"m1">>],
     [bos |-> 0, base |-> "none", extents |-> <<"m1", "m2">>],
     [bos |-> 0, base |-> "none", extents |-> <<"none">>],
     [bos |-> 4, base |-> "m1", extents |-> <<"m1">>],
     [bos |-> 4, base |-> "m1", extents |-> <<"m1", "m2">>],
     [bos |-> 4, base |-> "m1", extents |-> <<>>],
     [bos |-> 4, base |-> "none", extents |-> <<>>],
     [bos |-> 4, base |-> "none", extents |-> <<"m1">>],
     [bos |-> 0, base |-> "none", extents |-> <<"ftyp">>],
     [bos |-> 4, base |-> "ftyp", extents |-> <<>>]}

Tails == {"exact", "trailing", "truncated", "size0"}

\* The k-th top-level box of a file; at gives the absolute offset of a target.
EncTop(kind, nth_mdat, choice, at) ==
    CASE kind = "ftyp" -> EncFtyp
      [] kind = "meta" ->
            EncMeta(EncIloc(choice.bos, at[choice.base],
                            [k \in 1..Len(choice.extents) |->
                                at[choice.extents[k]] - at[choice.base]]))
      [] kind = "moov" ->
            EncMoov(EncStco([k \in 1..Len(choice.extents) |-> at[choice.extents[k]]]))
      [] kind = "mdat" -> EncMdat(nth_mdat)
      [] OTHER -> EncFree

MdatsBefore(layout, k) == Cardinality({j \in 1..(k - 1) : layout[j] = "mdat"})

EncFile(layout, choice, at) ==
    Concat([k \in 1..Len(layout) |->
               EncTop(layout[k], MdatsBefore(layout, k) + 1, choice, at)])

\* The offset of the first payload byte of the n-th mdat of the file; of
\* the byte after the target before when there is no n-th mdat.  Box sizes
\* do not depend on the offsets stored.
TargetNames == {"none", "ftyp", "m1", "m2"}

NoTargets == [t \in TargetNames |-> 0]

RECURSIVE MdatTarget(_, _, _)
MdatTarget(layout, choice, n) ==
    LET ks == {k \in 1..Len(layout) : layout[k] = "mdat" /\ MdatsBefore(layout, k) = n - 1}
    IN IF ks = {} THEN (IF n = 1 THEN 0 ELSE 1 + MdatTarget(layout, choice, n - 1))
       ELSE Len(EncFile(SubSeq(layout, 1, Min(ks) - 1), choice, NoTargets)) + 8

Targets(layout, choice) ==
    [t \in TargetNames |->
        CASE t = "m1" -> MdatTarget(layout, choice, 1)
          [] t = "m2" -> MdatTarget(layout, choice, 2)
          [] t = "ftyp" -> Len(EncBox(TypeFtyp, <<>>))
          [] OTHER -> 0]

\* The file with its tail: as laid out, followed by bytes that start no
\* box, cut short inside its last box, or with the size field of its last
\* box set to 0.
LastBoxStart(layout, choice) ==
    Len(EncFile(SubSeq(layout, 1, Len(layout) - 1), choice, NoTargets))

WithTail(bytes, tail, last_start) ==
    CASE tail = "trailing" -> bytes \o [i \in 1..TrailingBytes |-> 200 + i]
      [] tail = "truncated" -> SubSeq(bytes, 1, Len(bytes) - MissingBytes)
      [] tail = "size0" ->
            [i \in 1..Len(bytes) |->
                IF i \in (last_start + 1)..(last_start + 4) THEN 0 ELSE bytes[i]]
      [] OTHER -> bytes

InputFile(layout, choice, tail) ==
    WithTail(EncFile(layout, choice, Targets(layout, choice)), tail,
             LastBoxStart(layout, choice))

InputFiles ==
    {InputFile(layout, choice, tail) : layout \in Layouts, choice \in IlocChoices, tail \in Tails}

(***************************************************************************)
(* One run of the tool on one input file: parse, fixes, write.             *)
(***************************************************************************)

GraphIdle ==
    /\ hasIprp = FALSE /\ ipco = <<>> /\ associations = [it \in {} |-> <<>>]
    /\ needs_rewrite = CleanTree /\ failed = FALSE
    /\ lastCall = NoCall /\ prevCall = NoCall /\ calls = 0 /\ read_result = NoRead
    /\ FixIdle
    /\ AuxIdle

\* process(): the source file is opened and parsed.
InitWrite ==
    /\ src_file \in InputFiles
    /\ parsed_boxes = ParsedFile(src_file).boxes
    /\ pc = IF ParsedFile(src_file).ok THEN "parsed" ELSE "aborted"
    /\ box_index = 0 /\ output = <<>> /\ output_pos = 0 /\ count = 0 /\ read_pos = 0
    /\ placeholder_offsets = <<>> /\ mdat_boxes = <<>> /\ patch_index = 0
    /\ applied = <<>>
    /\ GraphIdle

\* list.remove(x): [ok, list]; ValueError when x is not in the list.
ListRemove(list, x) ==
    LET at == {i \in 1..Len(list) : list[i] = x}
    IN IF at = {} THEN [ok |-> FALSE, list |-> list]
       ELSE [ok |-> TRUE,
             list |-> SubSeq(list, 1, Min(at) - 1) \o SubSeq(list, Min(at) + 1, Len(list))]

\* _remove_brand_factory._fix_brand on the ftyp body: [ok, body].
FixBrandBody(body, brand) ==
    IF brand = body.major
    THEN LET r1 == ListRemove(body.compatible, BrandAvif)
             r2 == ListRemove(r1.list, brand)
         IN [ok |-> r1.ok /\ r2.ok,
             body |-> [body EXCEPT !.major = BrandAvif, !.compatible = r2.list]]
    ELSE LET r == ListRemove(body.compatible, brand)
         IN [ok |-> r.ok, body |-> [body EXCEPT !.compatible = r.list]]

\* validate_profile_brands has raised an issue for a profile brand of the
\* ftyp box, and process() applies its fix.
FixBrand(brand) ==
    /\ pc = "parsed"
    /\ LET ftyp == GetBoxFromHierarchy(<<TypeFtyp>>, parsed_boxes)
           box == parsed_boxes[ftyp[1]]
           fixed == FixBrandBody(box.body, brand)
       IN /\ ftyp # <<>>
          /\ \E i \in 1..Len(<<box.body.major>> \o box.body.compatible) :
                (<<box.body.major>> \o box.body.compatible)[i] = brand
          /\ IF fixed.ok
             THEN /\ parsed_boxes' = MarkBoxForRewrite(
                                        [parsed_boxes EXCEPT ![ftyp[1]].body = fixed.body],
                                        ftyp)
                  /\ pc' = pc
             ELSE /\ parsed_boxes' = parsed_boxes
                  /\ pc' = "aborted"
    /\ UNCHANGED <<src_file, box_index, output, output_pos, count, read_pos,
                   placeholder_offsets, mdat_boxes, patch_index, applied>>
    /\ UNCHANGED graphVars

\* file.write(data) at position pos of a file holding `file`.
FileWrite(file, pos, data) ==
    [i \in 1..Max({Len(file), pos + Len(data)}) |->
        IF i > pos /\ i <= pos + Len(data) THEN data[i - pos]
        ELSE IF i <= Len(file) THEN file[i] ELSE 0]

\* AVIFWriter.write up to its first loop: the destination is opened, the
\* offset boxes are marked when a box has changed.
WriteStart ==
    /\ pc = "parsed"
    /\ parsed_boxes' = IF BoxesHaveChanged(parsed_boxes)
                       THEN MarkOffsetBoxesForRewrite(parsed_boxes) ELSE parsed_boxes
    /\ pc' = "boxes"
    /\ box_index' = 1
    /\ output' = <<>> /\ output_pos' = 0
    /\ UNCHANGED <<src_file, count, read_pos, placeholder_offsets, mdat_boxes,
                   patch_index, applied>>
    /\ UNCHANGED graphVars

\* AVIFWriter.write, one turn of the loop over the top-level boxes: the
\* position of an mdat is recorded, a clean box starts
\* copy_data_to_destination, a dirty box is written by its box writer.
WriteTopLevelBox ==
    /\ pc = "boxes"
    /\ box_index <= Len(parsed_boxes)
    /\ LET box == parsed_boxes[box_index]
           written == WriteBox(src_file, box, output_pos)
       IN /\ mdat_boxes' = IF box.type = TypeMdat
                           THEN Append(mdat_boxes, [start |-> box.start, end |-> box.end,
                                                    new_offset |-> output_pos])
                           ELSE mdat_boxes
          /\ IF ~box.needs_rewrite
             THEN /\ pc' = "copy"
                  /\ read_pos' = box.start
                  /\ count' = box.size
                  /\ UNCHANGED <<box_index, output, output_pos, placeholder_offsets>>
             ELSE IF written.ok
             THEN /\ output' = FileWrite(output, output_pos, written.data)
                  /\ output_pos' = output_pos + Len(written.data)
                  /\ placeholder_offsets' = placeholder_offsets \o written.offsets
                  /\ box_index' = box_index + 1
                  /\ UNCHANGED <<pc, read_pos, count>>
             ELSE /\ pc' = "aborted"
                  /\ UNCHANGED <<box_index, output, output_pos, placeholder_offsets,
                                 read_pos, count>>
    /\ UNCHANGED <<src_file, parsed_boxes, patch_index, applied>>
    /\ UNCHANGED graphVars

\* FileReader.copy_data_to_destination, one turn of its loop.
CopyChunk ==
    /\ pc = "copy"
    /\ count > 0
    /\ LET data == FileRead(src_file, read_pos, IF ChunkSize < count THEN ChunkSize ELSE count)
       IN /\ output' = FileWrite(output, output_pos, data)
          /\ output_pos' = output_pos + Len(data)
          /\ count' = count - Len(data)
          /\ read_pos' = read_pos + Len(data)
    /\ UNCHANGED <<src_file, parsed_boxes, pc, box_index, placeholder_offsets, mdat_boxes,
                   patch_index, applied>>
    /\ UNCHANGED graphVars

\* FileReader.copy_data_to_destination, the loop has ended.
CopyDone ==
    /\ pc = "copy"
    /\ ~(count > 0)
    /\ pc' = "boxes"
    /\ box_index' = box_index + 1
    /\ UNCHANGED <<src_file, parsed_boxes, output, output_pos, count, read_pos,
                   placeholder_offsets, mdat_boxes, patch_index, applied>>
    /\ UNCHANGED graphVars

\* AVIFWriter.write, the loop over the top-level boxes has ended.
BoxesWritten ==
    /\ pc = "boxes"
    /\ box_index > Len(parsed_boxes)
    /\ pc' = "patch"
    /\ patch_index' = 1
    /\ UNCHANGED <<src_file, parsed_boxes, box_index, output, output_pos, count, read_pos,
                   placeholder_offsets, mdat_boxes, applied>>
    /\ UNCHANGED graphVars

\* AVIFWriter.write, the search for the mdat of a placeholder:
\* [ok, found, mdat]; mdat is the index the loop variable is left at, 0
\* when there is no mdat box.
InMdat(mdat, o) == mdat.start <= o /\ o < mdat.end

FindMdat(mdats, offsets) ==
    LET AllIn(j) == \A k \in 1..Len(offsets) : InMdat(mdats[j], offsets[k])
        AnyIn(j) == \E k \in 1..Len(offsets) : InMdat(mdats[j], offsets[k])
        hits == {j \in 1..Len(mdats) : AllIn(j)}
        stop == IF hits = {} THEN Len(mdats) ELSE Min(hits) - 1
    IN IF \E j \in 1..stop : AnyIn(j)
       THEN [ok |-> FALSE, found |-> FALSE, mdat |-> 0]
       ELSE IF hits # {} THEN [ok |-> TRUE, found |-> TRUE, mdat |-> Min(hits)]
       ELSE [ok |-> Len(mdats) > 0, found |-> FALSE, mdat |-> Len(mdats)]

\* write_delta that writes where the file stands, without the seek to
\* file_pos.
WriteDelta_NoSeek(placeholder, file, delta) ==
    [ok |-> TRUE,
     file |-> FileWrite(file, Len(file),
                        WriteIntegerOfSize(placeholder.value + delta, placeholder.size))]

\* write_delta that writes the value back without the delta.
WriteDelta_NoDelta(placeholder, file, delta) ==
    [ok |-> TRUE,
     file |-> FileWrite(file, placeholder.file_pos,
                        WriteIntegerOfSize(placeholder.value, placeholder.size))]

\* PlaceholderFileOffset.write_delta: [ok, file].  A value of the model is
\* below 256^4 and fits every field of four bytes or more.
WriteDelta(placeholder, file, delta) ==
    LET new_value == placeholder.value + delta
        fits == placeholder.size >= 4 \/ new_value <= Pow256(placeholder.size) - 1
    IN IF new_value >= 0 /\ fits
       THEN [ok |-> TRUE,
             file |-> FileWrite(file, placeholder.file_pos,
                                WriteIntegerOfSize(new_value, placeholder.size))]
       ELSE [ok |-> FALSE, file |-> file]

\* AVIFWriter.write, one turn of the loop over the placeholders.
PatchPlaceholder ==
    /\ pc = "patch"
    /\ patch_index <= Len(placeholder_offsets)
    /\ LET placeholder == placeholder_offsets[patch_index]
           offsets == GetOffsetList(placeholder)
           search == FindMdat(mdat_boxes, offsets)
           mdat_box == mdat_boxes[search.mdat]
           delta == mdat_box.new_offset - mdat_box.start
           patched == WriteDelta(placeholder, output, delta)
       IN IF search.ok /\ patched.ok
          THEN /\ output' = patched.file
               /\ applied' = Append(applied, [placeholder |-> placeholder, delta |-> delta,
                                              found |-> search.found])
               /\ patch_index' = patch_index + 1
               /\ pc' = pc
          ELSE /\ pc' = "aborted"
               /\ UNCHANGED <<output, applied, patch_index>>
    /\ UNCHANGED <<src_file, parsed_boxes, box_index, output_pos, count, read_pos,
                   placeholder_offsets, mdat_boxes>>
    /\ UNCHANGED graphVars

\* AVIFWriter.write returns.
WriteDone ==
    /\ pc = "patch"
    /\ patch_index > Len(placeholder_offsets)
    /\ pc' = "done"
    /\ UNCHANGED <<src_file, parsed_boxes, box_index, output, output_pos, count, read_pos,
                   placeholder_offsets, mdat_boxes, patch_index, applied>>
    /\ UNCHANGED graphVars

ProfileBrands == {BrandMA1B}

NextWrite ==
    \/ \E brand \in ProfileBrands : FixBrand(brand)
    \/ WriteStart
    \/ WriteTopLevelBox
    \/ CopyChunk
    \/ CopyDone
    \/ BoxesWritten
    \/ PatchPlaceholder
    \/ WriteDone

SpecWrite == InitWrite /\ [][NextWrite]_vars

(***************************************************************************)
(* Properties of the writer.                                               *)
(***************************************************************************)
\* C1. Round trip: when write() has returned and no box was dirty, the
\* output holds the bytes of the input, the bytes after the last top-level
\* box included.
C1_RoundTrip ==
    (pc = "done" /\ ~BoxesHaveChanged(parsed_boxes)) => output = src_file

\* The file offsets a box tree resolves to, in file order: base_offset +
\* extent offset for the extents of the iloc items of construction method
\* 0, and the stco chunk offsets.
IlocOffsets(body) ==
    Concat([i \in 1..Len(body.items) |->
               IF body.items[i].construction_method = 0
               THEN [j \in 1..Len(body.items[i].extents) |->
                        body.items[i].extents[j].calculated_total_offset]
               ELSE <<>>])

RECURSIVE ResolvedOffsets(_)
ResolvedOffsets(boxes) ==
    Concat([k \in 1..Len(boxes) |->
               IF boxes[k].body.kind = "iloc" THEN IlocOffsets(boxes[k].body)
               ELSE IF boxes[k].body.kind = "stco" THEN boxes[k].body.entries
               ELSE IF boxes[k].has_sub_boxes THEN ResolvedOffsets(boxes[k].sub_boxes)
               ELSE <<>>])

\* The offsets of the output follow the mdat boxes: an offset into an mdat
\* that moved by D has become the offset + D.
OffsetsFollow(before, after, mdats) ==
    /\ Len(after) = Len(before)
    /\ \A k \in 1..Len(before) : \A m \in 1..Len(mdats) :
          InMdat(mdats[m], before[k]) =>
              after[k] = before[k] + (mdats[m].new_offset - mdats[m].start)

\* C2. Offset coherence: when write() has returned, every iloc and stco
\* offset that pointed into a top-level mdat of the input reads, in the
\* output, as its input value plus the distance that mdat has moved; an
\* offset into an mdat that has not moved is unchanged.
C2_OffsetCoherence ==
    pc = "done" =>
        OffsetsFollow(ResolvedOffsets(ParsedFile(src_file).boxes),
                      ResolvedOffsets(ParsedFile(output).boxes), mdat_boxes)

\* An mdat has moved and an offset into it has been patched.
C2_Witness ==
    /\ pc = "done"
    /\ \E k \in 1..Len(applied) : applied[k].found /\ applied[k].delta # 0
    /\ \E k \in 1..Len(ResolvedOffsets(ParsedFile(src_file).boxes)) :
          \E m \in 1..Len(mdat_boxes) :
             /\ InMdat(mdat_boxes[m], ResolvedOffsets(ParsedFile(src_file).boxes)[k])
             /\ mdat_boxes[m].new_offset # mdat_boxes[m].start

C4_CopyLoopProgress ==
    (pc = "copy" /\ count > 0) =>
        FileRead(src_file, read_pos, IF ChunkSize < count THEN ChunkSize ELSE count) # <<>>

RECURSIVE HasBoxAt(_, _)
HasBoxAt(boxes, box_hierarchy) ==
    \E i \in 1..Len(boxes) :
        /\ boxes[i].type = Head(box_hierarchy)
        /\ (Len(box_hierarchy) = 1 \/ HasBoxAt(boxes[i].sub_boxes, Tail(box_hierarchy)))

\* Every box reached by the types of the hierarchy is marked, with every
\* box on the way to it.
RECURSIVE DirtyAlong(_, _)
DirtyAlong(boxes, box_hierarchy) ==
    \A i \in 1..Len(boxes) :
        (/\ boxes[i].type = Head(box_hierarchy)
         /\ (Len(box_hierarchy) = 1 \/ HasBoxAt(boxes[i].sub_boxes, Tail(box_hierarchy))))
            => /\ boxes[i].needs_rewrite
               /\ (Len(box_hierarchy) = 1
                      \/ DirtyAlong(boxes[i].sub_boxes, Tail(box_hierarchy)))

OffsetBoxesDirty(boxes) ==
    /\ DirtyAlong(boxes, <<TypeMeta, TypeIloc>>)
    /\ DirtyAlong(boxes, <<TypeMoov, TypeTrak, TypeMdia, TypeMinf, TypeStbl, TypeStco>>)

RECURSIVE AllClean(_)
AllClean(boxes) ==
    \A i \in 1..Len(boxes) : ~boxes[i].needs_rewrite /\ AllClean(boxes[i].sub_boxes)

\* Every offset of the iloc and stco boxes is the value of a placeholder,
\* or of a base placeholder with one of its dependents.
OffsetsHavePlaceholders(boxes, placeholders) ==
    \A k \in 1..Len(ResolvedOffsets(boxes)) :
        \E p \in 1..Len(placeholders) :
            \E i \in 1..Len(GetOffsetList(placeholders[p])) :
                GetOffsetList(placeholders[p])[i] = ResolvedOffsets(boxes)[k]

\* write() starts with a dirty top-level box: the offset boxes are marked
\* and nothing has been written.
WriteStartsDirty ==
    BoxesHaveChanged(parsed_boxes)
        => OffsetBoxesDirty(parsed_boxes') /\ output' = <<>> /\ output_pos' = 0

\* C23. Offset-bearing boxes are forced dirty: when write() starts with a
\* dirty top-level box, meta/iloc and the stco of every trak of moov are
\* marked with all the boxes above them before a byte is written, they stay
\* marked while the file is written, and every iloc and stco offset has its
\* placeholder once the boxes are written; when write() starts with no
\* dirty top-level box, no box of the tree is marked.
C23_OffsetBoxesForcedDirty ==
    /\ [][(pc = "parsed" /\ pc' = "boxes") =>
              /\ WriteStartsDirty
              /\ ~BoxesHaveChanged(parsed_boxes) => parsed_boxes' = parsed_boxes]_vars
    /\ [](pc \in {"boxes", "copy", "patch", "done"} =>
              IF BoxesHaveChanged(parsed_boxes)
              THEN /\ OffsetBoxesDirty(parsed_boxes)
                   /\ pc \in {"patch", "done"} =>
                          OffsetsHavePlaceholders(parsed_boxes, placeholder_offsets)
              ELSE AllClean(parsed_boxes))

\* write() has marked the stco box of a trak and the five boxes above it,
\* and has not written a byte yet.
C23_Witness ==
    /\ pc = "boxes" /\ box_index = 1 /\ output = <<>>
    /\ \E i \in 1..Len(parsed_boxes) : parsed_boxes[i].type = TypeFtyp
                                          /\ parsed_boxes[i].needs_rewrite
    /\ HasBoxAt(parsed_boxes,
                <<TypeMoov, TypeTrak, TypeMdia, TypeMinf, TypeStbl, TypeStco>>)
    /\ OffsetBoxesDirty(parsed_boxes)

\* Where the offset fields of a box tree lie (ISO/IEC 14496-12, 8.7.5 and
\* 8.11.3), as [file_pos, size]: the chunk offsets of an stco box follow its
\* 12 bytes of header and its entry count; an iloc item of construction
\* method 0 has its base_offset after item_ID, construction_method (versions
\* 1, 2) and data_reference_index, and without base_offset the offset of
\* each extent after extent_count and the extents before it.
StcoOffsetFields(box) ==
    [k \in 1..Len(box.body.entries) |->
        [file_pos |-> box.start + 16 + 4 * (k - 1), size |-> 4]]

IlocItemHeadSize(box) ==
    (IF box.header[1] < 2 THEN 2 ELSE 4) + (IF box.header[1] \in {1, 2} THEN 2 ELSE 0) + 2

IlocExtentIndexSize(box) ==
    IF box.header[1] \in {1, 2} /\ box.body.index_size > 0 THEN box.body.index_size ELSE 0

IlocExtentSize(box) ==
    IlocExtentIndexSize(box) + box.body.offset_size + box.body.length_size

IlocItemSize(box, item) ==
    IlocItemHeadSize(box) + box.body.base_offset_size + 2
        + Len(item.extents) * IlocExtentSize(box)

IlocItemOffsetFields(box, item, pos) ==
    IF item.construction_method # 0 THEN <<>>
    ELSE IF box.body.base_offset_size > 0
    THEN <<[file_pos |-> pos + IlocItemHeadSize(box), size |-> box.body.base_offset_size]>>
    ELSE IF box.body.offset_size > 0
    THEN [k \in 1..Len(item.extents) |->
             [file_pos |-> pos + IlocItemHeadSize(box) + 2
                              + (k - 1) * IlocExtentSize(box) + IlocExtentIndexSize(box),
              size |-> box.body.offset_size]]
    ELSE <<>>

RECURSIVE IlocOffsetFields(_, _, _)
IlocOffsetFields(box, items, pos) ==
    IF items = <<>> THEN <<>>
    ELSE IlocItemOffsetFields(box, Head(items), pos)
            \o IlocOffsetFields(box, Tail(items), pos + IlocItemSize(box, Head(items)))

RECURSIVE OffsetFields(_)
OffsetFields(boxes) ==
    Concat([k \in 1..Len(boxes) |->
               IF boxes[k].body.kind = "iloc"
               THEN IlocOffsetFields(boxes[k], boxes[k].body.items,
                        boxes[k].start + 14 + (IF boxes[k].header[1] < 2 THEN 2 ELSE 4))
               ELSE IF boxes[k].body.kind = "stco" THEN StcoOffsetFields(boxes[k])
               ELSE IF boxes[k].has_sub_boxes THEN OffsetFields(boxes[k].sub_boxes)
               ELSE <<>>])

\* file_pos and size of the placeholders.
PlaceholderFields(placeholders) ==
    [k \in 1..Len(placeholders) |->
        [file_pos |-> placeholders[k].file_pos, size |-> placeholders[k].size]]

SameElements(s, t) ==
    {s[k] : k \in 1..Len(s)} = {t[k] : k \in 1..Len(t)} /\ Len(s) = Len(t)

\* C24. Placeholder positions are exact: once the boxes are written, the
\* placeholders collected from the iloc box in meta and from the stco box
\* in moov/trak/mdia/minf/stbl name, each with its size, exactly the
\* offset fields of the file written; and before the first patch the bytes
\* at file_pos are the size bytes of the placeholder's value.
C24_PlaceholderPositions ==
    /\ (pc \in {"patch", "done"} /\ BoxesHaveChanged(parsed_boxes)) =>
           SameElements(PlaceholderFields(placeholder_offsets),
                        OffsetFields(ParsedFile(output).boxes))
    /\ (pc = "patch" /\ patch_index = 1) =>
           \A k \in 1..Len(placeholder_offsets) :
               SubSeq(output, placeholder_offsets[k].file_pos + 1,
                      placeholder_offsets[k].file_pos + placeholder_offsets[k].size)
                   = WriteIntegerOfSize(placeholder_offsets[k].value,
                                        placeholder_offsets[k].size)

\* The file is written with placeholders of offset fields that lie, in the
\* output, where no offset field of the source lies, in an stco five boxes
\* below moov.
C24_Witness ==
    /\ pc = "done"
    /\ placeholder_offsets # <<>>
    /\ \A k \in 1..Len(placeholder_offsets) :
          \A j \in 1..Len(OffsetFields(parsed_boxes)) :
              PlaceholderFields(placeholder_offsets)[k] # OffsetFields(parsed_boxes)[j]
    /\ HasBoxAt(parsed_boxes,
                <<TypeMoov, TypeTrak, TypeMdia, TypeMinf, TypeStbl, TypeStco>>)

\* The top-level mdat boxes of the tree, in file order.
TopLevelMdats(boxes) == {i \in 1..Len(boxes) : boxes[i].type = TypeMdat}

\* The first loop of write() has ended: every top-level box is emitted and
\* every mdat has its position in the output recorded.
AllBoxesEmitted ==
    /\ pc = "patch"
    /\ box_index > Len(parsed_boxes)
    /\ Len(mdat_boxes) = Cardinality(TopLevelMdats(parsed_boxes))
    /\ \A m \in 1..Len(mdat_boxes) :
          /\ \E i \in TopLevelMdats(parsed_boxes) :
                parsed_boxes[i].start = mdat_boxes[m].start
          /\ SubSeq(output, mdat_boxes[m].new_offset + 5, mdat_boxes[m].new_offset + 8)
                = TypeMdat

\* The step has patched the placeholder in hand: size bytes at file_pos hold
\* the value with the delta, the position and every other byte are as before.
PatchedInPlace(placeholder) ==
    /\ output_pos' = output_pos
    /\ Len(output') = Len(output)
    /\ placeholder.file_pos >= 0
    /\ placeholder.file_pos + placeholder.size <= Len(output)
    /\ SubSeq(output', placeholder.file_pos + 1, placeholder.file_pos + placeholder.size)
          = WriteIntegerOfSize(placeholder.value + applied'[Len(applied')].delta,
                               placeholder.size)
    /\ \A i \in 1..Len(output) :
          (i <= placeholder.file_pos \/ i > placeholder.file_pos + placeholder.size)
              => output'[i] = output[i]

TwoPhaseStep ==
    /\ (pc \notin {"patch", "done"}) => (applied = <<>> /\ applied' = applied)
    /\ (applied' # applied \/ (pc = "patch" /\ output' # output)) =>
          /\ AllBoxesEmitted
          /\ applied' = Append(applied, applied'[Len(applied')])
          /\ applied'[Len(applied')].placeholder = placeholder_offsets[patch_index]
          /\ PatchedInPlace(placeholder_offsets[patch_index])

\* C25. Two-phase write ordering: a placeholder is patched only when every
\* top-level box has been emitted and the position of every mdat recorded;
\* a patch overwrites the size bytes at the placeholder's file_pos and
\* leaves the output position, the length of the output and every other
\* byte as they were, so the output keeps the length it had when the boxes
\* were written.
C25_TwoPhaseWrite ==
    /\ [][TwoPhaseStep]_vars
    /\ [](pc \in {"patch", "done"} => Len(output) = output_pos)

\* Two placeholders have been patched, one of them with a delta, and the
\* file is written.
C25_Witness ==
    /\ pc = "done"
    /\ Len(applied) >= 2
    /\ \E k \in 1..Len(applied) : applied[k].delta # 0
    /\ Len(output) = output_pos

\* The header of a box written: size and type, version and flags for a
\* full box.
HeaderSize(box) == 8 + (IF Len(box.header) > 0 THEN 4 ELSE 0)

\* The 32-bit size field of the box that starts at start.
SizeField(src, start) == UnpackInteger(SubSeq(src, start + 1, start + 4))

\* The bytes of `out` from pos on are `data`.
HoldsAt(out, pos, data) ==
    pos + Len(data) <= Len(out) /\ SubSeq(out, pos + 1, pos + Len(data)) = data

\* Where the boxes end in `out` when they lie in it from pos on, one after
\* the other, as a well-formed tree: a clean box as the bytes of its source
\* range (all of them when it lies in a container), a dirty box with its
\* type and a size field that reaches to where its children end; -1 when
\* they do not.
RECURSIVE BoxesEnd(_, _, _, _, _)
CleanBoxEnd(out, src, box, pos, nested) ==
    IF /\ HoldsAt(out, pos, FileRead(src, box.start, box.size))
       /\ (nested => Len(FileRead(src, box.start, box.size)) = box.size)
    THEN pos + Len(FileRead(src, box.start, box.size))
    ELSE -1

DirtyBoxEnd(out, src, box, pos) ==
    IF \/ pos + HeaderSize(box) > Len(out)
       \/ SubSeq(out, pos + 5, pos + 8) # box.type
       \/ SizeField(out, pos) < HeaderSize(box)
       \/ pos + SizeField(out, pos) > Len(out)
    THEN -1
    ELSE IF /\ box.type \in GenericContainerTypes
            /\ BoxesEnd(out, src, box.sub_boxes, pos + HeaderSize(box), TRUE)
                   # pos + SizeField(out, pos)
    THEN -1
    ELSE pos + SizeField(out, pos)

BoxesEnd(out, src, boxes, pos, nested) ==
    IF boxes = <<>> \/ pos < 0 THEN pos
    ELSE BoxesEnd(out, src, Tail(boxes),
                  IF Head(boxes).needs_rewrite
                  THEN DirtyBoxEnd(out, src, Head(boxes), pos)
                  ELSE CleanBoxEnd(out, src, Head(boxes), pos, nested),
                  nested)

\* C26. The output is a well-formed box tree: when write() has returned,
\* the boxes of the tree lie in the output one after the other and fill it;
\* every dirty box has its type and a size field that counts its header
\* (8 bytes, 12 for a full box) and its body, the children of a dirty
\* container fill its body exactly, and a clean box in a dirty container
\* is the bytes of its source range.
C26_WellFormedOutput ==
    pc = "done" => BoxesEnd(output, src_file, parsed_boxes, 0, FALSE) = Len(output)

\* The file is written with a dirty meta box that holds a clean pitm box
\* and a dirty iloc box.
C26_Witness ==
    /\ pc = "done"
    /\ \E i \in 1..Len(parsed_boxes) :
          /\ parsed_boxes[i].type = TypeMeta
          /\ parsed_boxes[i].needs_rewrite
          /\ \E j \in 1..Len(parsed_boxes[i].sub_boxes) :
                /\ parsed_boxes[i].sub_boxes[j].type = TypePitm
                /\ ~parsed_boxes[i].sub_boxes[j].needs_rewrite
          /\ \E j \in 1..Len(parsed_boxes[i].sub_boxes) :
                /\ parsed_boxes[i].sub_boxes[j].type = TypeIloc
                /\ parsed_boxes[i].sub_boxes[j].needs_rewrite

(***************************************************************************)
(* ParsedFile.__init__ on files with counted children (iinf, stsd, dref),   *)
(* with a last child that overruns its parent or has size field 0, and    *)
(* with boxes nested in boxes the parser has no recipe for.                *)
(***************************************************************************)
MaxEntries == 2
MaxNesting == 9

EncInfe(item_id) ==
    EncFullBox(TypeInfe, 2, 0,
        WriteIntegerOfSize(item_id, 2) \o WriteIntegerOfSize(0, 2) \o TypeAv01 \o <<0>>)

EncAv01 == EncBox(TypeAv01, [i \in 1..78 |-> 0] \o EncFree)

EncUrl == EncFullBox(TypeUrl, 0, 1, <<>>)

Tweaks == {"none", "overrun", "size0"}

\* A box with its size field raised by one, or set to 0.
Tweaked(bytes, tweak) ==
    CASE tweak = "overrun" -> WriteIntegerOfSize(Len(bytes) + 1, 4) \o SubSeq(bytes, 5, Len(bytes))
      [] tweak = "size0" -> WriteIntegerOfSize(0, 4) \o SubSeq(bytes, 5, Len(bytes))
      [] OTHER -> bytes

EncChild(kind, k) ==
    CASE kind = "iinf" -> EncInfe(k)
      [] kind = "stsd" -> EncAv01
      [] OTHER -> EncUrl

\* children child boxes, the last of them tweaked.
EncChildren(kind, children, tweak) ==
    Concat([k \in 1..children |->
               IF k = children THEN Tweaked(EncChild(kind, k), tweak) ELSE EncChild(kind, k)])

\* The box that declares entry_count children and holds `children`.
EncCounted(kind, entry_count, children, tweak) ==
    CASE kind = "iinf" ->
            EncMeta(EncFullBox(TypeIinf, 0, 0,
                        WriteIntegerOfSize(entry_count, 2)
                            \o EncChildren(kind, children, tweak)))
      [] kind = "stsd" ->
            EncMoov(EncFullBox(TypeStsd, 0, 0,
                        WriteIntegerOfSize(entry_count, 4)
                            \o EncChildren(kind, children, tweak)))
      [] OTHER ->
            EncBox(TypeMoov, EncBox(TypeTrak, EncBox(TypeMdia, EncBox(TypeMinf,
                EncBox(TypeDinf,
                    EncFullBox(TypeDref, 0, 0,
                        WriteIntegerOfSize(entry_count, 4)
                            \o EncChildren(kind, children, tweak)))))))

\* depth boxes of a type without recipe, each the payload of the one before.
RECURSIVE EncNested(_)
EncNested(depth) == IF depth <= 0 THEN <<>> ELSE EncBox(TypeFree, EncNested(depth - 1))

CountedKinds == {"iinf", "stsd", "dref"}

ParseInputs ==
    {WithTail(EncFtyp \o EncCounted(kind, entry_count, children, tweak), tail, Len(EncFtyp)) :
        kind \in CountedKinds, entry_count \in 0..MaxEntries, children \in 0..MaxEntries,
        tweak \in Tweaks, tail \in Tails}
      \cup {WithTail(EncFtyp \o EncNested(depth), tail, Len(EncFtyp)) :
                depth \in 1..MaxNesting, tail \in Tails}

\* process(): the source file is opened.
InitParse ==
    /\ src_file \in ParseInputs
    /\ parsed_boxes = <<>>
    /\ pc = "opened"
    /\ box_index = 0 /\ output = <<>> /\ output_pos = 0 /\ count = 0 /\ read_pos = 0
    /\ placeholder_offsets = <<>> /\ mdat_boxes = <<>> /\ patch_index = 0
    /\ applied = <<>>
    /\ GraphIdle

\* process(): ParsedFile(file, verbose).
ParseFileStep ==
    /\ pc = "opened"
    /\ parsed_boxes' = ParsedFile(src_file).boxes
    /\ pc' = IF ParsedFile(src_file).ok THEN "parsed" ELSE "aborted"
    /\ UNCHANGED <<src_file, box_index, output, output_pos, count, read_pos,
                   placeholder_offsets, mdat_boxes, patch_index, applied>>
    /\ UNCHANGED graphVars

NextParse == ParseFileStep

SpecParse == InitParse /\ [][NextParse]_vars

\* Every box of a parsed tree with the range it was parsed in (lo, hi), its
\* depth and the number of its children.
RECURSIVE BoxRanges(_, _, _, _)
BoxRanges(boxes, lo, hi, depth) ==
    UNION {{[type |-> boxes[k].type, start |-> boxes[k].start, end |-> boxes[k].end,
             header |-> boxes[k].header, lo |-> lo, hi |-> hi, depth |-> depth,
             has_sub_boxes |-> boxes[k].has_sub_boxes,
             children |-> Len(boxes[k].sub_boxes)]}
             \cup (IF boxes[k].has_sub_boxes
                   THEN BoxRanges(boxes[k].sub_boxes, boxes[k].start, boxes[k].end, depth + 1)
                   ELSE {}) : k \in 1..Len(boxes)}

ParsedRanges == BoxRanges(parsed_boxes, 0, Len(src_file), 1)

\* The entry count the file declares for an iinf, stsd or dref box.
DeclaredCount(src, b) ==
    UnpackInteger(SubSeq(src, b.start + 13,
                         b.start + 12 + (IF b.type = TypeIinf /\ b.header[1] = 0
                                         THEN 2 ELSE 4)))

\* C13. Expected child count: when the parse has succeeded, every iinf,
\* stsd and dref box holds as many child boxes as its entry count says.
C13_ExpectedChildCount ==
    pc = "parsed" =>
        \A b \in ParsedRanges :
            b.type \in {TypeIinf, TypeStsd, TypeDref} => b.children = DeclaredCount(src_file, b)

\* C14. Child overrun is fatal: when the parse has succeeded, every box
\* lies within the range it was parsed in, its parent's or the file's.
C14_ChildWithinParent ==
    pc = "parsed" => \A b \in ParsedRanges : b.lo <= b.start /\ b.end <= b.hi

\* C15. Size field 0: a parsed box whose size field is 0 ends where the
\* range it was parsed in ends.
C15_SizeZeroExtendsToEnd ==
    pc = "parsed" =>
        \A b \in ParsedRanges : SizeField(src_file, b.start) = 0 => b.end = b.hi

\* The longest chain of parse_box_sequence calls the recipe maps allow:
\* top level, moov, trak, mdia, minf, stbl, stsd, av01.
MaxRecipeDepth == 8

\* The bytes lo..hi of the file are a sequence of boxes.
RECURSIVE IsBoxSequence(_, _, _)
IsBoxSequence(src, lo, hi) ==
    IF lo = hi THEN TRUE
    ELSE /\ hi - lo >= 8
         /\ SizeField(src, lo) >= 8
         /\ lo + SizeField(src, lo) <= hi
         /\ IsBoxSequence(src, lo + SizeField(src, lo), hi)

\* How deep boxes are nested in the bytes lo..hi, whatever their types.
RECURSIVE NestingDepth(_, _, _)
NestingDepth(src, lo, hi) ==
    IF lo >= hi \/ ~IsBoxSequence(src, lo, hi) THEN 0
    ELSE Max({1 + NestingDepth(src, lo + 8, lo + SizeField(src, lo)),
              NestingDepth(src, lo + SizeField(src, lo), hi)})

MaxPropertyIndexInput == 65536

\* The property indices an association table of the model can hold: around
\* the 7-bit, the 8-bit, the 15-bit and the 16-bit limit.
IpmaIndexChoices == {1, 127, 128, 256, 32768, MaxPropertyIndexInput}

IpmaAssocEntries == IpmaIndexChoices \X BOOLEAN

IpmaAssocLists(n) ==
    {<<>>} \cup {<<a>> : a \in IpmaAssocEntries}
           \cup (IF n < 2 THEN {}
                 ELSE {<<a, b>> : a \in IpmaAssocEntries, b \in IpmaAssocEntries})

\* ParsedFile.ipma.body["associations"]: item 1 with up to two associations,
\* item 2, when it has any, with at most one.
IpmaTables ==
    {[it \in {1} |-> l] : l \in IpmaAssocLists(2)}
      \cup {[it \in Items |-> IF it = 1 THEN l[1] ELSE l[2]] :
                l \in IpmaAssocLists(2) \X IpmaAssocLists(1)}

\* The ipma box of the parsed file: header (version, flags) and the body.
IpmaBox(version, flags, table) ==
    [Box(TypeIpma, 0, 0) EXCEPT !.header = <<version, flags>>,
                                !.body = [kind |-> "ipma", associations |-> table],
                                !.needs_rewrite = TRUE]

\* struct.pack of an unsigned integer: struct.error when it does not fit.
\* Every value of the model fits four bytes.
StructPack(st, value, nbytes) ==
    IF ~st.ok THEN st
    ELSE IF value < 0 \/ (nbytes < 4 /\ value >= Pow256(nbytes))
    THEN [st EXCEPT !.ok = FALSE, !.error = "struct.error"]
    ELSE Pack(st, value, nbytes)

\* (essential_bit << shift) | prop_index.
EssentialBitOr(essential, shift, prop_index) ==
    IF (prop_index \div Pow2(shift)) % 2 = 1 \/ ~essential THEN prop_index
    ELSE Pow2(shift) + prop_index

\* _write_ipma_box, l.1796-1798.
ItemIdSize(box) == IF box.header[1] < 1 THEN 2 ELSE 4

AssociationSize(box) == IF box.header[2] % 2 = 1 THEN 2 ELSE 1

MaxPropertyIndex(box) == Pow2(AssociationSize(box) * 8) - 1

\* _write_ipma_box, l.1807-1813: one association.
WriteIpmaAssociation(st, box, assoc) ==
    IF ~st.ok THEN st
    ELSE IF ~(assoc[1] <= MaxPropertyIndex(box))
    THEN [st EXCEPT !.ok = FALSE, !.error = "AssertionError"]
    ELSE IF AssociationSize(box) = 2
    THEN StructPack(st, EssentialBitOr(assoc[2], 15, assoc[1]), 2)
    ELSE StructPack(st, EssentialBitOr(assoc[2], 7, assoc[1]), 1)

RECURSIVE WriteIpmaAssociations(_, _, _)
WriteIpmaAssociations(st, box, item_assocs) ==
    IF item_assocs = <<>> THEN st
    ELSE WriteIpmaAssociations(WriteIpmaAssociation(st, box, Head(item_assocs)),
                               box, Tail(item_assocs))

\* _write_ipma_box, l.1802-1806: the items in the order of their ids.
RECURSIVE WriteIpmaItems(_, _, _)
WriteIpmaItems(st, box, item_ids) ==
    IF item_ids = {} THEN st
    ELSE WriteIpmaItems(
             WriteIpmaAssociations(
                 StructPack(StructPack(st, Min(item_ids), ItemIdSize(box)),
                            Len(box.body.associations[Min(item_ids)]), 1),
                 box, box.body.associations[Min(item_ids)]),
             box, item_ids \ {Min(item_ids)})

NewIpmaBody ==
    [ok |-> TRUE, data |-> <<>>, offsets |-> <<>>, base |-> NoPlaceholder,
     error |-> "none"]

\* _write_ipma_box: the body bytes, or the exception raised.
WriteIpmaBody(box) ==
    WriteIpmaItems(StructPack(NewIpmaBody, Cardinality(DOMAIN box.body.associations), 4),
                   box, DOMAIN box.body.associations)

\* _write_ipma_box: box.write_box_header(len(body_data)) + body_data.
WriteIpmaBox(box, current_offset) ==
    [ok |-> WriteIpmaBody(box).ok /\ WriteBoxHeader(box, Len(WriteIpmaBody(box).data)).ok,
     data |-> WriteBoxHeader(box, Len(WriteIpmaBody(box).data)).data
                \o WriteIpmaBody(box).data,
     offsets |-> <<>>,
     error |-> WriteIpmaBody(box).error]

\* parse_ipma_box, l.770-774: one association, read into vals.
ReadIpmaAssociation(src, r, box) ==
    IF box.header[2] % 2 = 1
    THEN ReadIntegerOfSize(src, ReadIntegerOfSize(src, Cleared(r), box.end, 1), box.end, 1)
    ELSE ReadIntegerOfSize(src, Cleared(r), box.end, 1)

\* (prop_index, essential) of the association read.
IpmaAssociationOf(r, box) ==
    IF ~r.ok THEN <<0, FALSE>>
    ELSE IF box.header[2] % 2 = 1
    THEN <<(r.vals[1] % 128) * 256 + r.vals[2], r.vals[1] \div 128 # 0>>
    ELSE <<r.vals[1] % 128, r.vals[1] \div 128 # 0>>

RECURSIVE ParseIpmaAssociations(_, _, _, _, _)
ParseIpmaAssociations(src, r, box, association_count, properties) ==
    IF association_count = 0 \/ ~r.ok THEN [r |-> r, properties |-> properties]
    ELSE ParseIpmaAssociations(
             src, ReadIpmaAssociation(src, r, box), box, association_count - 1,
             Append(properties, IpmaAssociationOf(ReadIpmaAssociation(src, r, box), box)))

\* parse_ipma_box, l.764-765: item_id and association_count, read into vals.
ReadIpmaItem(src, r, box) ==
    ReadIntegerOfSize(src, ReadIntegerOfSize(src, Cleared(r), box.end, ItemIdSize(box)),
                      box.end, 1)

\* body["associations"][item_id] = properties.
WithAssociations(table, item_id, properties) ==
    [it \in DOMAIN table \cup {item_id} |-> IF it = item_id THEN properties ELSE table[it]]

RECURSIVE ParseIpmaItems(_, _, _, _, _)
ParseIpmaItem(src, item, box) ==
    ParseIpmaAssociations(src, item, box, IF item.ok THEN item.vals[2] ELSE 0, <<>>)

ParseIpmaItems(src, r, box, entry_count, table) ==
    IF entry_count = 0 \/ ~r.ok THEN [r |-> r, table |-> table]
    ELSE ParseIpmaItems(
             src, ParseIpmaItem(src, ReadIpmaItem(src, r, box), box).r, box,
             entry_count - 1,
             IF ReadIpmaItem(src, r, box).ok
             THEN WithAssociations(table, ReadIpmaItem(src, r, box).vals[1],
                      ParseIpmaItem(src, ReadIpmaItem(src, r, box), box).properties)
             ELSE table)

IpmaBody(r, entry_count, parsed) ==
    IF ~parsed.r.ok THEN [r |-> parsed.r, body |-> NoBody]
    ELSE [r |-> parsed.r,
          body |-> [kind |-> "ipma", entry_count |-> entry_count,
                    associations |-> parsed.table]]

\* parse_ipma_box.
ParseIpmaEntries(src, r, box) ==
    IF ~r.ok THEN [r |-> r, body |-> NoBody]
    ELSE IpmaBody(r, r.vals[1],
                  ParseIpmaItems(src, r, box, r.vals[1], [it \in {} |-> <<>>]))

ParseIpmaBox(src, r, box) ==
    ParseIpmaEntries(src, ReadIntegerOfSize(src, Cleared(r), box.end, 4), box)

\* Box.from_reader and parse_full_box_header on the bytes written: the box
\* header is 8 bytes, the version 1 byte and the flags 3 bytes.
IpmaBoxRead(src) ==
    [Box(SubSeq(src, 5, 8), UnpackInteger(SubSeq(src, 1, 4)), 0)
        EXCEPT !.header = <<src[9], UnpackInteger(SubSeq(src, 10, 12))>>]

ParsedIpmaBox(src) ==
    [IpmaBoxRead(src) EXCEPT !.body = ParseIpmaBox(src, Reader(12), IpmaBoxRead(src)).body]

\* The file has an ipma box to rewrite: versions 0 and 1, flags 0 and 1.
InitIpma ==
    /\ associations \in IpmaTables
    /\ \E version \in {0, 1}, flags \in {0, 1} :
           parsed_boxes = <<IpmaBox(version, flags, associations)>>
    /\ hasIprp = TRUE
    /\ ipco = <<>>
    /\ needs_rewrite = MarkForRewrite(CleanTree, "ipma")
    /\ failed = FALSE
    /\ lastCall = NoCall /\ prevCall = NoCall /\ calls = 0 /\ read_result = NoRead
    /\ FixIdle
    /\ AuxIdle
    /\ src_file = <<>> /\ pc = "ipma" /\ box_index = 0
    /\ output = <<>> /\ output_pos = 0 /\ count = 0 /\ read_pos = 0
    /\ placeholder_offsets = <<>> /\ mdat_boxes = <<>> /\ patch_index = 0 /\ applied = <<>>

\* AVIFWriter._write_ipma_box on the box: its bytes, or the exception.
WriteIpmaStep ==
    /\ pc = "ipma"
    /\ IF WriteIpmaBox(parsed_boxes[1], 0).ok
       THEN /\ output' = WriteIpmaBox(parsed_boxes[1], 0).data
            /\ output_pos' = Len(WriteIpmaBox(parsed_boxes[1], 0).data)
            /\ pc' = "ipma_written"
            /\ failed' = FALSE
       ELSE /\ pc' = WriteIpmaBox(parsed_boxes[1], 0).error
            /\ failed' = TRUE
            /\ UNCHANGED <<output, output_pos>>
    /\ UNCHANGED <<ipco, associations, needs_rewrite, hasIprp, lastCall, prevCall, calls,
                   read_result>>
    /\ UNCHANGED fixVars
    /\ UNCHANGED auxVars
    /\ UNCHANGED <<src_file, parsed_boxes, box_index, count, read_pos, placeholder_offsets,
                   mdat_boxes, patch_index, applied>>

\* The bytes written are parsed again: parse_ipma_box.
ParseIpmaStep ==
    /\ pc = "ipma_written"
    /\ src_file' = output
    /\ parsed_boxes' = Append(parsed_boxes, ParsedIpmaBox(output))
    /\ pc' = "ipma_parsed"
    /\ UNCHANGED graphVars
    /\ UNCHANGED <<box_index, output, output_pos, count, read_pos, placeholder_offsets,
                   mdat_boxes, patch_index, applied>>

NextIpma == WriteIpmaStep \/ ParseIpmaStep

SpecIpma == InitIpma /\ [][NextIpma]_vars

\* The property index fits the field next to the essential bit: 7 bits, or
\* 15 bits when bit 0 of the flags is set.
FitsIndexField(box, prop_index) == prop_index < Pow2(AssociationSize(box) * 8 - 1)

AllIndicesFit(box) ==
    \A it \in DOMAIN box.body.associations :
        \A k \in 1..Len(box.body.associations[it]) :
            FitsIndexField(box, box.body.associations[it][k][1])

\* C29: the ipma box written for an association table parses back to the
\* same table, item by item, index by index and flag by flag, in the same
\* order; a table with an index that does not fit the 7-bit (15-bit) field
\* is refused by the writer's assertion, never written.
C29_IpmaRoundTrip ==
    /\ pc = "ipma_parsed" =>
           /\ parsed_boxes[2].body # NoBody
           /\ parsed_boxes[2].body.associations = associations
    /\ (pc # "ipma" /\ ~AllIndicesFit(parsed_boxes[1])) => pc = "AssertionError"

====
